---- MODULE Spec2Model ----
(***************************************************************************)
(* State-machine model of the go-backend-template REST service:           *)
(* handlers (Register, Login, GetProfile, UpdateProfile, GetUsers,         *)
(* HealthCheck), the JWTAuth / RequireRole middleware in front of them,    *)
(* the jwt package and the two storage backends (PostgreSQL through GORM,  *)
(* MongoDB through the official driver).                                   *)
(***************************************************************************)
EXTENDS Integers, Sequences, FiniteSets, TLC

VARIABLES
    postgresDB,   \* h.postgresDB != nil
    mongoDB,      \* h.mongoDB != nil
    mongoUnique,  \* the users collection has the unique indexes of scripts/init-mongo.js
    pgUsers,      \* rows of the relational table users, in primary-key order
    pgSeq,        \* last value handed out by the serial primary key
    mgUsers,      \* documents of the collection users, in natural order
    mgSeq,        \* number of ObjectIDs generated so far
    reqs,         \* the requests being served, one per serving goroutine
    held,         \* the token the client holds, NoToken before the first one
    conc,         \* how many requests the server is serving at the same time
    now,          \* wall clock, in ticks of 1/TicksPerSecond s
    issued,       \* SpecToken: the token GenerateToken produced, with its issue time
    checked,      \* SpecToken: the last ValidateToken call and its outcome
    chain,        \* SpecChain: one request on its way through the middleware chain
    config,       \* SpecConfig: the environment of the process and what Load made of it
    l10n,         \* SpecLocalizer: a Localizer and the last call of its Get
    limiter       \* SpecLimiter: the client table of RateLimiter and the requests in it

vars == <<postgresDB, mongoDB, mongoUnique, pgUsers, pgSeq, mgUsers, mgSeq,
          reqs, held, conc, now, issued, checked, chain, config, l10n, limiter>>

(***************************************************************************)
(* Bounds of the model.                                                    *)
(***************************************************************************)
MaxInflight == 2     \* requests served at the same time under SpecConc
MaxUsers == 2        \* records per backend (seed included)
ClockSlack == 3      \* ticks explored around the issue and expiry instants
MaxServed == 2       \* requests served one after another under SpecChain
MaxWindows == 2      \* windows of the rate limiter the clock runs through
MaxOtherRequests == 2  \* requests counted for a client address other than the first
MaxOffset == 1       \* ticks between the first requests of two client addresses
MaxArrivals == 6     \* requests that arrive under SpecLimiterConc

(***************************************************************************)
(* Program constants.                                                      *)
(***************************************************************************)
TicksPerSecond == 2          \* jwt.TimePrecision is one second; the clock is finer
Limit == 100                 \* RateLimiter: limit := 100
WindowSeconds == 60          \* RateLimiter: window := time.Minute
TokenHours == 24             \* GenerateToken: time.Now().Add(24 * time.Hour)
MinPasswordLen == 6          \* binding:"required,min=6"
MinUsernameLen == 3          \* binding:"required,min=3"
MinPage == 1                 \* binding:"min=1"
MaxPageSize == 100           \* binding:"min=1,max=100"
DefaultPage == 1             \* form:"page,default=1"
DefaultPageSize == 10        \* form:"page_size,default=10"

StatusOK == 200
StatusCreated == 201
StatusBadRequest == 400
StatusUnauthorized == 401
StatusForbidden == 403
StatusNotFound == 404
StatusRequestTimeout == 408
StatusConflict == 409
StatusTooManyRequests == 429
StatusInternalServerError == 500
StatusServiceUnavailable == 503

TokenTTL == TokenHours * 3600 * TicksPerSecond

(***************************************************************************)
(* The strings the model draws request fields from.  TLA+ strings are      *)
(* atomic, so the two facts the validators need (length, e-mail shape)     *)
(* are tabulated.                                                          *)
(***************************************************************************)
Emails == {"a@x.io", "b@x.io"}
SeedEmail == "root@x.io"
BadEmail == "not-an-email"
Usernames == {"ann", "bob"}
SeedUsername == "root"
ShortUsername == "al"
Passwords == {"secret1", "secret2"}
ShortPassword == "abc"
\* "secret1", a NUL byte (\u0000 in the JSON payload), "secret1" again
LoopedPassword == "secret1<NUL>secret1"

StrLen(s) ==
    CASE s = "" -> 0
      [] s = "al" -> 2
      [] s = "abc" -> 3
      [] s = "ann" -> 3
      [] s = "bob" -> 3
      [] s = "root" -> 4
      [] s = "Ann" -> 3
      [] s = "Lee" -> 3
      [] s = "Zed" -> 3
      [] s = "Smith" -> 5
      [] s = "a@x.io" -> 6
      [] s = "b@x.io" -> 6
      [] s = "secret1" -> 7
      [] s = "secret2" -> 7
      [] s = "secret1<NUL>secret1" -> 15
      [] s = "root@x.io" -> 9
      [] s = "not-an-email" -> 12
      [] OTHER -> 8

\* validator tag "email"
IsEmail(s) == s \in Emails \cup {SeedEmail}

\* substring test used by ILIKE '%term%' and by $regex over the strings above:
\* none of them contains another one, so containment is equality
Contains(s, term) == term = "" \/ s = term

(***************************************************************************)
(* Identifiers.  The relational key is a uint, the document key an         *)
(* ObjectID; both travel through the token as JSON (encoding/json decodes  *)
(* a number into float64 and a string into string) and through the gin     *)
(* context as interface{} values.                                          *)
(***************************************************************************)
UintID(n) == [t |-> "uint", s |-> "", v |-> n]
ObjectID(n) == [t |-> "ObjectID", s |-> "", v |-> n]
Float64(n) == [t |-> "float64", s |-> "", v |-> n]

\* a Go string: plain text, or the text of a number (s says in which notation)
Str(text) == [t |-> "string", s |-> text, v |-> 0]
EmptyString == Str("")

\* primitive.ObjectID.Hex: the 24-digit hexadecimal text of the id
Hex(oid) == [t |-> "string", s |-> "hex24", v |-> oid.v]

\* what json.Marshal followed by json.Unmarshal into interface{} yields:
\* a JSON number comes back as float64, a JSON string as string
JSONRoundTrip(val) == IF val.t = "uint" THEN Float64(val.v) ELSE val

\* gin.Context.GetString: the value when it is a string, "" otherwise
GetString(ctx, key) ==
    IF key \in DOMAIN ctx /\ ctx[key].t = "string" THEN ctx[key] ELSE EmptyString

\* id, _ := strconv.ParseUint(userID, 10, 32): 0 when the text is no decimal number
ParseUint(str) == IF str.s = "decimal" THEN str.v ELSE 0

\* primitive.ObjectIDFromHex
ObjectIDFromHex(str) ==
    IF str.s = "hex24" THEN [ok |-> TRUE, id |-> ObjectID(str.v)]
    ELSE [ok |-> FALSE, id |-> ObjectID(0)]

(***************************************************************************)
(* utils.PasswordUtils (bcrypt).                                           *)
(***************************************************************************)
\* The key bcrypt feeds to Blowfish: the password followed by a NUL byte,
\* repeated cyclically over the 72 bytes of the key schedule.  The stream is
\* named by its shortest period without the closing NUL.  Every password of
\* the model is shorter than 72 bytes.
KeyStream(password) == IF password = LoopedPassword THEN "secret1" ELSE password

HashPassword(password) == [alg |-> "bcrypt", of |-> KeyStream(password)]

\* TRUE when bcrypt.CompareHashAndPassword returns nil
VerifyPassword(hashedPassword, password) == hashedPassword.of = KeyStream(password)

(***************************************************************************)
(* Package jwt.                                                            *)
(***************************************************************************)
JWTSecret == "server-secret"
OtherSecret == "other-secret"

\* jwt.NewNumericDate truncates to jwt.TimePrecision (one second)
NewNumericDate(t) == t - (t % TicksPerSecond)

NoToken == [malformed |-> TRUE, key |-> "", claims |-> [user_id |-> EmptyString,
            email |-> "", username |-> "", role |-> "", exp |-> 0, iat |-> 0, nbf |-> 0]]

\* GenerateToken reads the clock three times: t1 <= t2 <= t3
GenerateToken(secret, userID, email, username, role, t1, t2, t3) ==
    LET expirationTime == t1 + TokenTTL
        claims == [user_id |-> JSONRoundTrip(userID), email |-> email,
                   username |-> username, role |-> role,
                   exp |-> NewNumericDate(expirationTime),
                   iat |-> NewNumericDate(t2),
                   nbf |-> NewNumericDate(t3)]
    IN [token |-> [malformed |-> FALSE, key |-> secret, claims |-> claims],
        expiresAt |-> expirationTime]

\* a validator that still accepts a token at the instant it expires
ValidateTokenLate(secret, tokenString, t) ==
    IF tokenString.malformed THEN [ok |-> FALSE, claims |-> NoToken.claims]
    ELSE IF tokenString.key # secret THEN [ok |-> FALSE, claims |-> NoToken.claims]
    ELSE IF t > tokenString.claims.exp THEN [ok |-> FALSE, claims |-> NoToken.claims]
    ELSE IF t < tokenString.claims.nbf THEN [ok |-> FALSE, claims |-> NoToken.claims]
    ELSE [ok |-> TRUE, claims |-> tokenString.claims]

\* jwt.ParseWithClaims with the default validator of golang-jwt/v5:
\* signature, then exp (now must be before it), then nbf (now must not be before it)
ValidateToken(secret, tokenString, t) ==
    IF tokenString.malformed THEN [ok |-> FALSE, claims |-> NoToken.claims]
    ELSE IF tokenString.key # secret THEN [ok |-> FALSE, claims |-> NoToken.claims]
    ELSE IF ~(t < tokenString.claims.exp) THEN [ok |-> FALSE, claims |-> NoToken.claims]
    ELSE IF t < tokenString.claims.nbf THEN [ok |-> FALSE, claims |-> NoToken.claims]
    ELSE [ok |-> TRUE, claims |-> tokenString.claims]

(***************************************************************************)
(* utils.Localizer.                                                        *)
(***************************************************************************)
DefaultLanguage == "en"

Languages == {"en", "ar", "de"}

Keys == {"welcome", "user_not_found", "invalid_credentials", "user_created",
         "login_successful", "logout_successful", "user_updated", "user_deleted",
         "email_exists", "username_exists", "validation_error", "internal_error",
         "unauthorized", "forbidden", "not_found", "bad_request"}

English(k) ==
    CASE k = "welcome" -> "Welcome"
      [] k = "user_not_found" -> "User not found"
      [] k = "invalid_credentials" -> "Invalid credentials"
      [] k = "user_created" -> "User created successfully"
      [] k = "login_successful" -> "Login successful"
      [] k = "logout_successful" -> "Logout successful"
      [] k = "user_updated" -> "User updated successfully"
      [] k = "user_deleted" -> "User deleted successfully"
      [] k = "email_exists" -> "Email already exists"
      [] k = "username_exists" -> "Username already exists"
      [] k = "validation_error" -> "Validation error"
      [] k = "internal_error" -> "Internal server error"
      [] k = "unauthorized" -> "Unauthorized access"
      [] k = "forbidden" -> "Access forbidden"
      [] k = "not_found" -> "Resource not found"
      [] k = "bad_request" -> "Bad request"

German(k) ==
    CASE k = "welcome" -> "Willkommen"
      [] k = "user_not_found" -> "Benutzer nicht gefunden"
      [] k = "invalid_credentials" -> "Ungueltige Anmeldedaten"
      [] k = "user_created" -> "Benutzer erfolgreich erstellt"
      [] k = "login_successful" -> "Anmeldung erfolgreich"
      [] k = "logout_successful" -> "Abmeldung erfolgreich"
      [] k = "user_updated" -> "Benutzer erfolgreich aktualisiert"
      [] k = "user_deleted" -> "Benutzer erfolgreich geloescht"
      [] k = "email_exists" -> "E-Mail bereits vorhanden"
      [] k = "username_exists" -> "Benutzername bereits vorhanden"
      [] k = "validation_error" -> "Validierungsfehler"
      [] k = "internal_error" -> "Interner Serverfehler"
      [] k = "unauthorized" -> "Nicht autorisierter Zugriff"
      [] k = "forbidden" -> "Zugriff verboten"
      [] k = "not_found" -> "Ressource nicht gefunden"
      [] k = "bad_request" -> "Fehlerhafte Anfrage"

\* the Arabic texts, each written as its key with the language before it
Arabic(k) ==
    CASE k = "welcome" -> "ar/welcome"
      [] k = "user_not_found" -> "ar/user_not_found"
      [] k = "invalid_credentials" -> "ar/invalid_credentials"
      [] k = "user_created" -> "ar/user_created"
      [] k = "login_successful" -> "ar/login_successful"
      [] k = "logout_successful" -> "ar/logout_successful"
      [] k = "user_updated" -> "ar/user_updated"
      [] k = "user_deleted" -> "ar/user_deleted"
      [] k = "email_exists" -> "ar/email_exists"
      [] k = "username_exists" -> "ar/username_exists"
      [] k = "validation_error" -> "ar/validation_error"
      [] k = "internal_error" -> "ar/internal_error"
      [] k = "unauthorized" -> "ar/unauthorized"
      [] k = "forbidden" -> "ar/forbidden"
      [] k = "not_found" -> "ar/not_found"
      [] k = "bad_request" -> "ar/bad_request"

\* l.translations after loadTranslations
Translations ==
    [l \in Languages |->
       [k \in Keys |-> IF l = "en" THEN English(k)
                       ELSE IF l = "de" THEN German(k)
                       ELSE Arabic(k)]]

\* a Get without the fallback to the default language
GetNoFallback(defaultLanguage, lang, key) ==
    IF lang \in DOMAIN Translations /\ key \in DOMAIN Translations[lang]
    THEN Translations[lang][key]
    ELSE key

\* Localizer.Get of a Localizer made by NewLocalizer(defaultLanguage)
Get(defaultLanguage, lang, key) ==
    IF lang \in DOMAIN Translations /\ key \in DOMAIN Translations[lang]
    THEN Translations[lang][key]
    ELSE IF defaultLanguage \in DOMAIN Translations
            /\ key \in DOMAIN Translations[defaultLanguage]
    THEN Translations[defaultLanguage][key]
    ELSE key

\* h.localizer.Get of the handlers
LocalizerGet(lang, key) == Get(DefaultLanguage, lang, key)

\* no call of Get yet
NoCall == [DefaultLanguage |-> "", called |-> FALSE, lang |-> "", key |-> "", text |-> ""]

\* the values c.GetString("language") takes: unset, German, a language without a table
Langs == {"", "de"}

\* protected routes are exercised without an Accept-Language header
NoLang == ""

(***************************************************************************)
(* utils.ResponseUtils and models.APIResponse.                             *)
(***************************************************************************)
NoData == [kind |-> "none"]

SuccessResponse(message, data) ==
    [success |-> TRUE, message |-> message, data |-> data, error |-> ""]

ErrorResponse(message, error) ==
    [success |-> FALSE, message |-> message, data |-> NoData, error |-> error]

\* c.JSON(code, obj)
JSON(code, obj) == [written |-> TRUE, status |-> code, body |-> obj]

\* a handler that answers 500 where the code returns without writing
NoBackendError ==
    [written |-> TRUE, status |-> StatusInternalServerError,
     body |-> [success |-> FALSE, message |-> "Internal server error", data |-> NoData,
               error |-> "No storage backend configured"]]

\* a handler that returns without writing: gin answers 200 with an empty body
NoResponse == [written |-> FALSE, status |-> StatusOK,
               body |-> [success |-> FALSE, message |-> "", data |-> NoData, error |-> ""]]

\* a public view that copies the stored record whole
UserInfoWhole(user) ==
    [kind |-> "UserInfo",
     id |-> IF user.id.t = "ObjectID" THEN Hex(user.id) ELSE user.id,
     email |-> user.email, username |-> user.username,
     password |-> user.password,
     first_name |-> user.first_name, last_name |-> user.last_name,
     role |-> user.role, is_active |-> user.is_active,
     created_at |-> user.created_at, updated_at |-> user.updated_at]

\* models.UserInfo built from a stored user; the id is user.ID for the
\* relational model and user.ID.Hex() for the document model
UserInfo(user) ==
    [kind |-> "UserInfo",
     id |-> IF user.id.t = "ObjectID" THEN Hex(user.id) ELSE user.id,
     email |-> user.email, username |-> user.username,
     first_name |-> user.first_name, last_name |-> user.last_name,
     role |-> user.role, is_active |-> user.is_active,
     created_at |-> user.created_at, updated_at |-> user.updated_at]

AuthResponse(token, userInfo, expiresAt) ==
    [kind |-> "AuthResponse", token |-> token, user |-> userInfo, expires_at |-> expiresAt]

(***************************************************************************)
(* Go's int on the 64-bit targets the service is built for.  TLC's integers*)
(* are 32 bits wide, so an int is kept as four 16-bit limbs, least         *)
(* significant first, in two's complement; arithmetic wraps modulo 2^64.   *)
(***************************************************************************)
IntBits == 64
Limb == 2 ^ (IntBits \div 4)

\* the int with value n, for 0 <= n < 2^31
GoInt(n) == <<n % Limb, (n \div Limb) % Limb, 0, 0>>

IntIsNeg(x) == x[4] >= Limb \div 2

IntIsZero(x) == x = <<0, 0, 0, 0>>

\* x - 1
IntPred(x) ==
    IF x[1] > 0 THEN <<x[1] - 1, x[2], x[3], x[4]>>
    ELSE IF x[2] > 0 THEN <<Limb - 1, x[2] - 1, x[3], x[4]>>
    ELSE IF x[3] > 0 THEN <<Limb - 1, Limb - 1, x[3] - 1, x[4]>>
    ELSE IF x[4] > 0 THEN <<Limb - 1, Limb - 1, Limb - 1, x[4] - 1>>
    ELSE <<Limb - 1, Limb - 1, Limb - 1, Limb - 1>>

\* x * k for a small k >= 0, the carry out of the top limb dropped
IntMul(x, k) ==
    LET p1 == x[1] * k
        p2 == x[2] * k + (p1 \div Limb)
        p3 == x[3] * k + (p2 \div Limb)
        p4 == x[4] * k + (p3 \div Limb)
    IN <<p1 % Limb, p2 % Limb, p3 % Limb, p4 % Limb>>

\* a non-negative int as a count of rows to skip in a table of n rows
SkipCount(x, n) ==
    IF x[2] # 0 \/ x[3] # 0 \/ x[4] # 0 \/ x[1] > n THEN n ELSE x[1]

(***************************************************************************)
(* models.User / models.UserMongo and the two stores.                      *)
(***************************************************************************)
NoUser == [id |-> UintID(0), email |-> "", username |-> "",
           password |-> HashPassword(""), first_name |-> "", last_name |-> "",
           role |-> "", is_active |-> FALSE, created_at |-> 0, updated_at |-> 0]

\* the struct literal both Register branches build (the id is set by the insert)
\* a registration that takes the role from the payload's first name
NewUserChosenRole(req, hashedPassword, t) ==
    [id |-> UintID(0), email |-> req.email, username |-> req.username,
     password |-> hashedPassword, first_name |-> req.first_name,
     last_name |-> req.last_name, role |-> req.first_name, is_active |-> TRUE,
     created_at |-> t, updated_at |-> t]

NewUser(req, hashedPassword, t) ==
    [id |-> UintID(0), email |-> req.email, username |-> req.username,
     password |-> hashedPassword, first_name |-> req.first_name,
     last_name |-> req.last_name, role |-> "user", is_active |-> TRUE,
     created_at |-> t, updated_at |-> t]

\* an administrator put into the database by its operator: no endpoint
\* creates a user whose role is not "user"
SeedUser(id) ==
    [id |-> id, email |-> SeedEmail, username |-> SeedUsername,
     password |-> HashPassword("secret1"), first_name |-> "Zed",
     last_name |-> "Lee", role |-> "admin", is_active |-> TRUE,
     created_at |-> 0, updated_at |-> 0]

Range(seq) == {seq[i] : i \in 1..Len(seq)}

\* positions of the records with a given email / a given id
EmailIs(rows, email) == {i \in 1..Len(rows) : rows[i].email = email}

IDIs(rows, id) == {i \in 1..Len(rows) : rows[i].id = id}

\* the unique indexes on email and on username, seen by a row that is being
\* written at position skip (0 for an insert)
ViolatesUnique(rows, user, skip) ==
    \E i \in 1..Len(rows) :
        /\ i # skip
        /\ rows[i].email = user.email \/ rows[i].username = user.username

\* a pre-check that looks at the username only
UsernameOnly(u, email, username) == u.username = username

\* gorm Where("email = ? OR username = ?").First / FindOne({$or: [...]})
EmailOrUsername(u, email, username) == u.email = email \/ u.username = username

\* gorm: db.Create(&user) on a table with uniqueIndex on email and on username
PgCreate(rows, seq, user) ==
    IF ViolatesUnique(rows, user, 0)
    THEN [err |-> TRUE, rows |-> rows, seq |-> seq, user |-> user]
    ELSE LET created == [user EXCEPT !.id = UintID(seq + 1)]
         IN [err |-> FALSE, rows |-> Append(rows, created), seq |-> seq + 1,
             user |-> created]

\* mongo: collection.InsertOne; the driver generates the _id
MgInsertOne(docs, seq, unique, user) ==
    IF unique /\ ViolatesUnique(docs, user, 0)
    THEN [err |-> TRUE, rows |-> docs, seq |-> seq, user |-> user]
    ELSE LET created == [user EXCEPT !.id = ObjectID(seq + 1)]
         IN [err |-> FALSE, rows |-> Append(docs, created), seq |-> seq + 1,
             user |-> created]

\* handlers that try the document backend first
BackendMongoFirst == IF mongoDB THEN "mongo" ELSE IF postgresDB THEN "postgres" ELSE "none"

\* which backend a handler uses: the relational one whenever its handle is set
Backend == IF postgresDB THEN "postgres" ELSE IF mongoDB THEN "mongo" ELSE "none"

(***************************************************************************)
(* Requests.                                                               *)
(***************************************************************************)
Slots == 1..MaxInflight

EmptyCtx == [k \in {} |-> EmptyString]

EmptyBody == [email |-> "", username |-> "", password |-> "",
              first_name |-> "", last_name |-> "",
              page |-> GoInt(DefaultPage), page_size |-> DefaultPageSize, search |-> ""]

NoAuth == [kind |-> "none", token |-> NoToken]

NoServices == [k \in {} |-> ""]

NotYet == [written |-> FALSE, status |-> 0,
           body |-> [success |-> FALSE, message |-> "", data |-> NoData, error |-> ""]]

Idle == [op |-> "idle", pc |-> "idle", lang |-> "", auth |-> NoAuth,
         body |-> EmptyBody, ctx |-> EmptyCtx, user |-> NoUser, total |-> 0,
         services |-> NoServices, overall |-> "", resp |-> NotYet]

NewRequest(op, pc, lang, auth, body) ==
    [op |-> op, pc |-> pc, lang |-> lang, auth |-> auth, body |-> body,
     ctx |-> EmptyCtx, user |-> NoUser, total |-> 0, services |-> NoServices,
     overall |-> "", resp |-> NotYet]

\* the handler is through: the response (or none) is final
Done(r, resp) == [r EXCEPT !.pc = "done", !.resp = resp]

(***************************************************************************)
(* Request validation: the binding tags of models.RegisterRequest,         *)
(* LoginRequest, UpdateUserRequest.                                        *)
(***************************************************************************)
\* a registration schema without the minimum length of the password
ValidRegisterAnyPassword(b) ==
    /\ b.email # "" /\ IsEmail(b.email)
    /\ b.username # "" /\ StrLen(b.username) >= MinUsernameLen
    /\ b.password # ""
    /\ b.first_name # ""
    /\ b.last_name # ""

ValidRegister(b) ==
    /\ b.email # "" /\ IsEmail(b.email)
    /\ b.username # "" /\ StrLen(b.username) >= MinUsernameLen
    /\ b.password # "" /\ StrLen(b.password) >= MinPasswordLen
    /\ b.first_name # ""
    /\ b.last_name # ""

ValidLogin(b) ==
    /\ b.email # "" /\ IsEmail(b.email)
    /\ b.password # "" /\ StrLen(b.password) >= MinPasswordLen

ValidUpdate(b) == b.email = "" \/ IsEmail(b.email)

\* the password a user chooses (one per username keeps the input set small)
PasswordOf(u) == IF u = "ann" THEN "secret1" ELSE "secret2"

RegisterBody(e, u, p) ==
    [EmptyBody EXCEPT !.email = e, !.username = u, !.password = p,
                      !.first_name = "Ann", !.last_name = "Lee"]

\* narrow: the reduced input sets used when requests are served concurrently
RegisterBodies(narrow) ==
    {RegisterBody(e, u, PasswordOf(u)) : e \in Emails, u \in Usernames}
    \cup (IF narrow THEN {}
          ELSE {RegisterBody(BadEmail, "ann", "secret1"),
                RegisterBody("a@x.io", ShortUsername, "secret1"),
                RegisterBody("a@x.io", "ann", ShortPassword)})

LoginBodies ==
    {[EmptyBody EXCEPT !.email = e, !.password = p] :
        e \in Emails \cup {SeedEmail}, p \in Passwords}
    \cup {[EmptyBody EXCEPT !.email = BadEmail, !.password = "secret1"],
          [EmptyBody EXCEPT !.email = "a@x.io", !.password = ShortPassword],
          [EmptyBody EXCEPT !.email = "a@x.io", !.password = LoopedPassword]}

(***************************************************************************)
(* Package config.                                                         *)
(***************************************************************************)
\* the variables of the environment that Load reads and the model follows
EnvKeys == {"JWT_SECRET", "MONGODB_ENABLED", "POSTGRES_ENABLED"}

\* values of a variable; "" is what os.Getenv returns for an unset one
EnvValues == {"", "true", "TRUE", "True", "t", "1", "false", "FALSE", "f", "0",
              "yes", "on", "enabled"}

\* strings.ToLower
ToLower(value) ==
    CASE value \in {"TRUE", "True"} -> "true"
      [] value = "FALSE" -> "false"
      [] OTHER -> value

\* strconv.ParseBool: 1, t, T, TRUE, true, True and 0, f, F, FALSE, false,
\* False; an error for any other text
ParseBool(str) ==
    IF str \in {"1", "t", "T", "TRUE", "true", "True"} THEN [err |-> FALSE, v |-> TRUE]
    ELSE IF str \in {"0", "f", "F", "FALSE", "false", "False"} THEN [err |-> FALSE, v |-> FALSE]
    ELSE [err |-> TRUE, v |-> FALSE]

getEnv(env, key, defaultValue) == IF env[key] # "" THEN env[key] ELSE defaultValue

getBoolEnv(env, key, defaultValue) ==
    IF env[key] # ""
    THEN LET parsed == ParseBool(ToLower(env[key]))
         IN IF parsed.err THEN defaultValue ELSE parsed.v
    ELSE defaultValue

\* config.Load, the fields the handlers and JWTAuth depend on
Load(env) ==
    [JWTSecret |-> getEnv(env, "JWT_SECRET", "your-secret-key-change-this-in-production"),
     MongoDB |-> [Enabled |-> getBoolEnv(env, "MONGODB_ENABLED", TRUE)],
     PostgresDB |-> [Enabled |-> getBoolEnv(env, "POSTGRES_ENABLED", FALSE)]]

\* no environment followed, nothing loaded
NoConfig == [env |-> [k \in EnvKeys |-> ""], loaded |-> FALSE,
             cfg |-> [JWTSecret |-> "", MongoDB |-> [Enabled |-> FALSE],
                      PostgresDB |-> [Enabled |-> FALSE]]]

(***************************************************************************)
(* middleware.RateLimiter: the client table the closure keeps, one entry   *)
(* per client address, and the requests that are inside the middleware.    *)
(***************************************************************************)
\* window := time.Minute, in ticks of the clock
Window == WindowSeconds * TicksPerSecond

\* c.ClientIP()
Addresses == {"10.0.0.1", "10.0.0.2"}

\* clients[clientIP] == nil
NoClient == [present |-> FALSE, requests |-> 0, resetTime |-> 0, passed |-> 0]

\* a slot with no request inside the middleware
NoFlight == [pc |-> "idle", ip |-> "", at |-> 0, branch |-> "", seen |-> 0,
             next |-> FALSE, aborted |-> FALSE, resp |-> NoResponse]

NoLimiter ==
    [clients |-> [a \in Addresses |-> NoClient],  \* clients := make(map[string]*client)
     flight |-> [s \in Slots |-> NoFlight],       \* the goroutines inside the handler
     fatal |-> FALSE,                             \* the runtime stopped the process
     arrived |-> 0]                               \* requests numbered under SpecLimiterConc

\* the limiter that lets a request through while the counter is not above the limit
BranchAbove(cl, t) ==
    IF ~cl.present THEN "new"
    ELSE IF t > cl.resetTime THEN "reset"
    ELSE IF cl.requests > Limit THEN "limit"
    ELSE "count"

\* the case of the handler a request takes: the entry is nil, the window is
\* over (now.After(resetTime) is strict), the counter is at the limit, or the
\* request is counted
Branch(cl, t) ==
    IF ~cl.present THEN "new"
    ELSE IF t > cl.resetTime THEN "reset"
    ELSE IF cl.requests >= Limit THEN "limit"
    ELSE "count"

(***************************************************************************)
(* The engine before any request: no goroutine of a request runs, nothing  *)
(* is written, the process is up.                                          *)
(***************************************************************************)
NoWrite == [status |-> 0, body |-> <<>>]

NoChain ==
    [up |-> TRUE,          \* the process runs
     main |-> "idle",      \* the goroutine net/http serves the request on
     worker |-> "none",    \* the goroutine Timeout starts for the rest of the chain
     fault |-> "none",     \* the stage of the chain that panics on this request
     expired |-> FALSE,    \* ctx.Done() is closed: the deadline has passed
     open |-> FALSE,       \* the rest of the chain had not returned at the deadline
     branch |-> "",        \* the case the select of Timeout takes
     aborted |-> FALSE,    \* c.Abort() was called
     resp |-> NoWrite,     \* what was written to the ResponseWriter so far
     late |-> FALSE,       \* a write came after the request was finished
     served |-> 0,         \* requests finished
     last |-> NoWrite]     \* what the client of the last finished request received

(***************************************************************************)
(* Initial states: which backends are configured, whether the operator     *)
(* seeded an administrator, no request in flight.                          *)
(***************************************************************************)
\* a token a client still holds for a record that is no longer stored (the
\* operator removed it, or the service ran with another backend): tokens
\* outlive the records they name.  Ids are handed out from 1 on.
EarlierToken ==
    GenerateToken(JWTSecret, Hex(ObjectID(0)), SeedEmail, SeedUsername, "admin", 0, 0, 0).token

InitStore ==
    /\ postgresDB \in BOOLEAN
    /\ mongoDB \in BOOLEAN
    /\ mongoUnique \in (IF mongoDB /\ ~postgresDB THEN BOOLEAN ELSE {FALSE})
    /\ \E seeded \in BOOLEAN :
         /\ pgUsers = IF seeded /\ postgresDB THEN <<SeedUser(UintID(1))>> ELSE <<>>
         /\ pgSeq = IF seeded /\ postgresDB THEN 1 ELSE 0
         /\ mgUsers = IF seeded /\ mongoDB THEN <<SeedUser(ObjectID(1))>> ELSE <<>>
         /\ mgSeq = IF seeded /\ mongoDB THEN 1 ELSE 0
         /\ held \in (IF seeded THEN {NoToken} ELSE {NoToken, EarlierToken})
    /\ reqs = [s \in Slots |-> Idle]
    /\ now = 0
    /\ issued = {}
    /\ checked = [token |-> NoToken, secret |-> "", at |-> 0, ok |-> FALSE]
    /\ chain = NoChain
    /\ config = NoConfig
    /\ l10n = NoCall
    /\ limiter = NoLimiter

\* requests served one after another
Init == InitStore /\ conc = 1

\* MaxInflight requests served at the same time
InitConc == InitStore /\ conc = MaxInflight

(***************************************************************************)
(* POST /auth/register                                                     *)
(***************************************************************************)
UsersOf(backend) == IF backend = "postgres" THEN pgUsers ELSE mgUsers

Pending(op) == Cardinality({s \in Slots : reqs[s].op = op /\ reqs[s].pc # "done"})

RouteRegister(s) ==
    /\ s <= conc
    /\ reqs[s] = Idle
    /\ Len(UsersOf(Backend)) + Pending("Register") < MaxUsers
    /\ \E body \in RegisterBodies(conc > 1), lang \in (IF conc > 1 THEN {NoLang} ELSE Langs) :
         reqs' = [reqs EXCEPT ![s] = NewRequest("Register", "handler", lang, NoAuth, body)]
    /\ UNCHANGED <<postgresDB, mongoDB, mongoUnique, pgUsers, pgSeq, mgUsers, mgSeq,
                   held, conc, chain, config, l10n, limiter, now, issued, checked>>

\* Register up to and including the pre-check query
RegisterCheck(s) ==
    LET r == reqs[s]
        user == NewUser(r.body, HashPassword(r.body.password), now)
    IN
    /\ r.op = "Register" /\ r.pc = "handler"
    /\ reqs' = [reqs EXCEPT ![s] =
         IF ~ValidRegister(r.body)
         THEN Done(r, JSON(StatusBadRequest,
                  ErrorResponse(LocalizerGet(r.lang, "validation_error"), "binding")))
         ELSE IF Backend = "none"
         THEN Done(r, NoResponse)
         ELSE IF \E u \in Range(UsersOf(Backend)) :
                    EmailOrUsername(u, r.body.email, r.body.username)
         THEN Done(r, JSON(StatusConflict,
                  ErrorResponse(LocalizerGet(r.lang, "email_exists"), "User already exists")))
         ELSE [r EXCEPT !.pc = "create", !.user = user]]
    /\ UNCHANGED <<postgresDB, mongoDB, mongoUnique, pgUsers, pgSeq, mgUsers, mgSeq,
                   held, conc, chain, config, l10n, limiter, now, issued, checked>>

\* the response of Register and Login after the user is known
IssueFor(r, user, code, key) ==
    LET userID == IF user.id.t = "ObjectID" THEN Hex(user.id) ELSE user.id
        gen == GenerateToken(JWTSecret, userID, user.email, user.username, user.role,
                             now, now, now)
    IN JSON(code, SuccessResponse(LocalizerGet(r.lang, key),
                AuthResponse(gen.token, UserInfo(user), gen.expiresAt)))

\* Register from the insert to the response
RegisterCreate(s) ==
    LET r == reqs[s]
        res == IF Backend = "postgres"
               THEN PgCreate(pgUsers, pgSeq, r.user)
               ELSE MgInsertOne(mgUsers, mgSeq, mongoUnique, r.user)
    IN
    /\ r.op = "Register" /\ r.pc = "create"
    /\ IF Backend = "postgres"
       THEN pgUsers' = res.rows /\ pgSeq' = res.seq /\ UNCHANGED <<mgUsers, mgSeq>>
       ELSE mgUsers' = res.rows /\ mgSeq' = res.seq /\ UNCHANGED <<pgUsers, pgSeq>>
    /\ reqs' = [reqs EXCEPT ![s] =
         IF res.err
         THEN Done(r, JSON(StatusInternalServerError,
                  ErrorResponse(LocalizerGet(r.lang, "internal_error"), "Failed to create user")))
         ELSE Done([r EXCEPT !.user = res.user],
                   IssueFor(r, res.user, StatusCreated, "user_created"))]
    /\ UNCHANGED <<postgresDB, mongoDB, mongoUnique, held, conc, chain, config, l10n, limiter, now, issued, checked>>

\* the client reads the response; it keeps the token it held or the one it got
Reply(s) ==
    /\ reqs[s].pc = "done"
    /\ IF reqs[s].resp.body.data.kind = "AuthResponse"
       THEN held' \in {held, reqs[s].resp.body.data.token}
       ELSE held' = held
    /\ reqs' = [reqs EXCEPT ![s] = Idle]
    /\ UNCHANGED <<postgresDB, mongoDB, mongoUnique, pgUsers, pgSeq, mgUsers, mgSeq,
                   conc, chain, config, l10n, limiter, now, issued, checked>>

(***************************************************************************)
(* POST /auth/login                                                        *)
(***************************************************************************)
\* gorm First orders by primary key; FindOne returns the first document in
\* natural order: both are the first match of the stored sequence
FirstOf(rows, hits) ==
    IF hits = {} THEN [found |-> FALSE, user |-> NoUser]
       ELSE [found |-> TRUE,
             user |-> rows[CHOOSE i \in hits : \A j \in hits : i <= j]]

Unauthorized(lang) ==
    JSON(StatusUnauthorized,
         ErrorResponse(LocalizerGet(lang, "invalid_credentials"), "Authentication failed"))

\* a Login that tells an unknown email from a wrong password
LoginTellsApart(r, rows) ==
    LET hit == FirstOf(rows, EmailIs(rows, r.body.email))
    IN IF ~hit.found
       THEN JSON(StatusUnauthorized,
                 ErrorResponse(LocalizerGet(r.lang, "user_not_found"), "Authentication failed"))
       ELSE IF ~VerifyPassword(hit.user.password, r.body.password)
       THEN Unauthorized(r.lang)
       ELSE IssueFor(r, hit.user, StatusOK, "login_successful")

\* the response Login writes when run against the rows of its backend
LoginHandler(r, rows) ==
    LET hit == FirstOf(rows, EmailIs(rows, r.body.email))
    IN IF ~hit.found THEN Unauthorized(r.lang)
       ELSE IF ~VerifyPassword(hit.user.password, r.body.password)
       THEN Unauthorized(r.lang)
       ELSE IssueFor(r, hit.user, StatusOK, "login_successful")

RouteLogin(s) ==
    /\ s <= conc
    /\ reqs[s] = Idle
    /\ \E body \in LoginBodies, lang \in Langs :
         reqs' = [reqs EXCEPT ![s] = NewRequest("Login", "handler", lang, NoAuth, body)]
    /\ UNCHANGED <<postgresDB, mongoDB, mongoUnique, pgUsers, pgSeq, mgUsers, mgSeq,
                   held, conc, chain, config, l10n, limiter, now, issued, checked>>

Login(s) ==
    LET r == reqs[s]
    IN
    /\ r.op = "Login" /\ r.pc = "handler"
    /\ reqs' = [reqs EXCEPT ![s] =
         IF ~ValidLogin(r.body)
         THEN Done(r, JSON(StatusBadRequest,
                  ErrorResponse(LocalizerGet(r.lang, "validation_error"), "binding")))
         ELSE IF Backend = "none" THEN Done(r, NoResponse)
         ELSE Done(r, LoginHandler(r, UsersOf(Backend)))]
    /\ UNCHANGED <<postgresDB, mongoDB, mongoUnique, pgUsers, pgSeq, mgUsers, mgSeq,
                   held, conc, chain, config, l10n, limiter, now, issued, checked>>

(***************************************************************************)
(* middleware.JWTAuth and middleware.RequireRole                           *)
(***************************************************************************)
\* a token signed by somebody who does not hold the server's secret
ForgedToken ==
    GenerateToken(OtherSecret, UintID(1), SeedEmail, SeedUsername, "admin", 0, 0, 0).token

\* the Authorization headers JWTAuth turns down: none, not a Bearer header,
\* a Bearer header with text that is no token, a token signed with another key
BadHeaders ==
    {NoAuth, [kind |-> "basic", token |-> NoToken], [kind |-> "bearer", token |-> NoToken],
     [kind |-> "bearer", token |-> ForgedToken]}

Bearer(tk) == [kind |-> "bearer", token |-> tk]

\* what a client sends to a protected route: a header JWTAuth turns down
\* (the body is never read then), or a token it holds with any of the bodies
Protected(narrow, bodies) ==
    (IF narrow THEN {} ELSE {[auth |-> a, body |-> EmptyBody] : a \in BadHeaders})
    \cup {[auth |-> Bearer(tk), body |-> b] : tk \in {held} \ {NoToken}, b \in bodies}

MiddlewareError(code, message, error) ==
    JSON(code, [success |-> FALSE, message |-> message, data |-> NoData, error |-> error])

\* a JWTAuth that reads the claims of a Bearer token without validating it
JWTAuthUnverified(auth, t) ==
    IF auth.kind = "none"
    THEN [abort |-> TRUE, ctx |-> EmptyCtx,
          resp |-> MiddlewareError(StatusUnauthorized, "Authorization header required",
                                   "No authorization header provided")]
    ELSE IF auth.kind # "bearer"
    THEN [abort |-> TRUE, ctx |-> EmptyCtx,
          resp |-> MiddlewareError(StatusUnauthorized, "Invalid authorization header format",
                                   "Authorization header must start with 'Bearer '")]
    ELSE [abort |-> FALSE,
          ctx |-> [user_id |-> auth.token.claims.user_id,
                   user_email |-> Str(auth.token.claims.email),
                   user_username |-> Str(auth.token.claims.username),
                   user_role |-> Str(auth.token.claims.role)],
          resp |-> NotYet]

\* a JWTAuth that looks the token's user up in storage: no record, no entry;
\* the email of the context is the stored one
JWTAuthStored(auth, t) ==
    LET v == ValidateToken(JWTSecret, auth.token, t)
        rows == UsersOf(Backend)
        hits == {i \in 1..Len(rows) : rows[i].id.v = v.claims.user_id.v}
    IN IF auth.kind = "none"
       THEN [abort |-> TRUE, ctx |-> EmptyCtx,
             resp |-> MiddlewareError(StatusUnauthorized, "Authorization header required",
                                      "No authorization header provided")]
       ELSE IF auth.kind # "bearer"
       THEN [abort |-> TRUE, ctx |-> EmptyCtx,
             resp |-> MiddlewareError(StatusUnauthorized, "Invalid authorization header format",
                                      "Authorization header must start with 'Bearer '")]
       ELSE IF ~v.ok \/ hits = {}
       THEN [abort |-> TRUE, ctx |-> EmptyCtx,
             resp |-> MiddlewareError(StatusUnauthorized, "Invalid or expired token",
                                      "Authentication failed")]
       ELSE [abort |-> FALSE,
             ctx |-> [user_id |-> v.claims.user_id,
                      user_email |-> Str(rows[CHOOSE i \in hits : TRUE].email),
                      user_username |-> Str(v.claims.username),
                      user_role |-> Str(v.claims.role)],
             resp |-> NotYet]

\* JWTAuth on one request at time t: the 401 it writes, or the context it sets
JWTAuth(auth, t) ==
    LET v == ValidateToken(JWTSecret, auth.token, t)
    IN IF auth.kind = "none"
       THEN [abort |-> TRUE, ctx |-> EmptyCtx,
             resp |-> MiddlewareError(StatusUnauthorized, "Authorization header required",
                                      "No authorization header provided")]
       ELSE IF auth.kind # "bearer"
       THEN [abort |-> TRUE, ctx |-> EmptyCtx,
             resp |-> MiddlewareError(StatusUnauthorized, "Invalid authorization header format",
                                      "Authorization header must start with 'Bearer '")]
       ELSE IF ~v.ok
       THEN [abort |-> TRUE, ctx |-> EmptyCtx,
             resp |-> MiddlewareError(StatusUnauthorized, "Invalid or expired token",
                                      "Authentication failed")]
       ELSE [abort |-> FALSE,
             ctx |-> [user_id |-> v.claims.user_id,
                      user_email |-> Str(v.claims.email),
                      user_username |-> Str(v.claims.username),
                      user_role |-> Str(v.claims.role)],
             resp |-> NotYet]

\* the roles of adminUsers.Use(middleware.RequireRole("admin", "superadmin"))
AdminRoles == {"admin", "superadmin"}

\* a RequireRole that is content with any role in the context
RequireAnyRole(ctx, requiredRoles) ==
    IF "user_role" \notin DOMAIN ctx
    THEN [abort |-> TRUE,
          resp |-> MiddlewareError(StatusUnauthorized, "User role not found",
                                   "Authorization failed")]
    ELSE [abort |-> FALSE, resp |-> NotYet]

\* RequireRole on a request context
RequireRole(ctx, requiredRoles) ==
    IF "user_role" \notin DOMAIN ctx
    THEN [abort |-> TRUE,
          resp |-> MiddlewareError(StatusUnauthorized, "User role not found",
                                   "Authorization failed")]
    ELSE IF ctx["user_role"].s \in requiredRoles
    THEN [abort |-> FALSE, resp |-> NotYet]
    ELSE [abort |-> TRUE,
          resp |-> MiddlewareError(StatusForbidden, "Insufficient permissions",
                                   "You don't have permission to access this resource")]

JWTAuthStep(s) ==
    LET r == reqs[s]
        a == JWTAuth(r.auth, now)
    IN
    /\ r.pc = "JWTAuth"
    /\ reqs' = [reqs EXCEPT ![s] =
         IF a.abort THEN Done(r, a.resp)
         ELSE [r EXCEPT !.ctx = a.ctx,
                        !.pc = IF r.op = "GetUsers" THEN "RequireRole" ELSE "handler"]]
    /\ UNCHANGED <<postgresDB, mongoDB, mongoUnique, pgUsers, pgSeq, mgUsers, mgSeq,
                   held, conc, chain, config, l10n, limiter, now, issued, checked>>

RequireRoleStep(s) ==
    LET r == reqs[s]
        a == RequireRole(r.ctx, AdminRoles)
    IN
    /\ r.pc = "RequireRole"
    /\ reqs' = [reqs EXCEPT ![s] =
         IF a.abort THEN Done(r, a.resp) ELSE [r EXCEPT !.pc = "handler"]]
    /\ UNCHANGED <<postgresDB, mongoDB, mongoUnique, pgUsers, pgSeq, mgUsers, mgSeq,
                   held, conc, chain, config, l10n, limiter, now, issued, checked>>

(***************************************************************************)
(* GET /users/profile                                                      *)
(***************************************************************************)
RouteGetProfile(s) ==
    /\ s <= conc
    /\ reqs[s] = Idle
    /\ \E in \in Protected(FALSE, {EmptyBody}) :
         reqs' = [reqs EXCEPT ![s] =
                     NewRequest("GetProfile", "JWTAuth", NoLang, in.auth, in.body)]
    /\ UNCHANGED <<postgresDB, mongoDB, mongoUnique, pgUsers, pgSeq, mgUsers, mgSeq,
                   held, conc, chain, config, l10n, limiter, now, issued, checked>>

NotFound(lang) ==
    JSON(StatusNotFound, ErrorResponse(LocalizerGet(lang, "user_not_found"), "User not found"))

InvalidID(lang) ==
    JSON(StatusBadRequest, ErrorResponse(LocalizerGet(lang, "bad_request"), "Invalid user ID format"))

\* the key the relational branch looks up: uint(id) of the context's user_id
PgLookupKey(ctx) == UintID(ParseUint(GetString(ctx, "user_id")))

\* the response GetProfile writes when run against the rows of its backend
GetProfileHandler(r, backend, rows) ==
    IF backend = "postgres"
    THEN LET hit == FirstOf(rows, IDIs(rows, PgLookupKey(r.ctx)))
         IN IF ~hit.found THEN NotFound(r.lang)
            ELSE JSON(StatusOK, SuccessResponse("Profile retrieved successfully",
                                                UserInfo(hit.user)))
    ELSE LET oid == ObjectIDFromHex(GetString(r.ctx, "user_id"))
             hit == FirstOf(rows, IDIs(rows, oid.id))
         IN IF ~oid.ok THEN InvalidID(r.lang)
            ELSE IF ~hit.found THEN NotFound(r.lang)
            ELSE JSON(StatusOK, SuccessResponse("Profile retrieved successfully",
                                                UserInfo(hit.user)))

GetProfile(s) ==
    LET r == reqs[s]
    IN
    /\ r.op = "GetProfile" /\ r.pc = "handler"
    /\ reqs' = [reqs EXCEPT ![s] =
         IF Backend = "none" THEN Done(r, NoResponse)
         ELSE Done(r, GetProfileHandler(r, Backend, UsersOf(Backend)))]
    /\ UNCHANGED <<postgresDB, mongoDB, mongoUnique, pgUsers, pgSeq, mgUsers, mgSeq,
                   held, conc, chain, config, l10n, limiter, now, issued, checked>>

(***************************************************************************)
(* PUT /users/profile                                                      *)
(***************************************************************************)
UpdateBody(f, l, e) ==
    [EmptyBody EXCEPT !.first_name = f, !.last_name = l, !.email = e]

UpdateBodies(narrow) ==
    IF narrow
    THEN {UpdateBody("Zed", "", ""), UpdateBody("", "Smith", ""), UpdateBody("", "", "a@x.io")}
    ELSE {UpdateBody(f, l, e) : f \in {"", "Zed"}, l \in {"", "Smith"}, e \in {""} \cup Emails}
         \cup {UpdateBody("", "", BadEmail)}

RoutePutProfile(s) ==
    /\ s <= conc
    /\ reqs[s] = Idle
    /\ \E in \in Protected(conc > 1, UpdateBodies(conc > 1)) :
         reqs' = [reqs EXCEPT ![s] =
                     NewRequest("UpdateProfile", "JWTAuth", NoLang, in.auth, in.body)]
    /\ UNCHANGED <<postgresDB, mongoDB, mongoUnique, pgUsers, pgSeq, mgUsers, mgSeq,
                   held, conc, chain, config, l10n, limiter, now, issued, checked>>

\* relational branch: the assignments to the loaded user before Save
ApplyFields(user, body, t) ==
    [user EXCEPT !.first_name = IF body.first_name # "" THEN body.first_name ELSE @,
                 !.last_name = IF body.last_name # "" THEN body.last_name ELSE @,
                 !.email = IF body.email # "" THEN body.email ELSE @,
                 !.updated_at = t]

\* a $set document that carries every field of the request, empty or not
SetEveryField(doc, body, t) ==
    [doc EXCEPT !.updated_at = t, !.first_name = body.first_name,
                !.last_name = body.last_name,
                !.email = IF body.email # "" THEN body.email ELSE @]

\* document branch: the $set document applied to the stored document
SetDocument(doc, body, t) ==
    [doc EXCEPT !.updated_at = t,
                !.first_name = IF body.first_name # "" THEN body.first_name ELSE @,
                !.last_name = IF body.last_name # "" THEN body.last_name ELSE @,
                !.email = IF body.email # "" THEN body.email ELSE @]

\* gorm: db.Save(&user) writes every column of the row with the user's key,
\* and inserts the row when no row has that key
PgSave(rows, user) ==
    LET at == IDIs(rows, user.id)
    IN IF at = {}
       THEN IF ViolatesUnique(rows, user, 0) THEN [err |-> TRUE, rows |-> rows]
            ELSE [err |-> FALSE, rows |-> Append(rows, user)]
       ELSE LET i == CHOOSE j \in at : TRUE
            IN IF ViolatesUnique(rows, user, i) THEN [err |-> TRUE, rows |-> rows]
               ELSE [err |-> FALSE, rows |-> [rows EXCEPT ![i] = user]]

\* mongo: collection.UpdateOne({_id: id}, {$set: ...}); no match is no error
MgUpdateOne(docs, unique, id, body, t) ==
    LET at == IDIs(docs, id)
    IN IF at = {} THEN [err |-> FALSE, rows |-> docs]
       ELSE LET i == CHOOSE j \in at : \A k \in at : j <= k
                doc == SetDocument(docs[i], body, t)
            IN IF unique /\ ViolatesUnique(docs, doc, i) THEN [err |-> TRUE, rows |-> docs]
               ELSE [err |-> FALSE, rows |-> [docs EXCEPT ![i] = doc]]

UpdateFailed(lang, error) ==
    JSON(StatusInternalServerError, ErrorResponse(LocalizerGet(lang, "internal_error"), error))

Updated(lang, user) ==
    JSON(StatusOK, SuccessResponse(LocalizerGet(lang, "user_updated"), UserInfo(user)))

\* UpdateProfile up to its first storage call: First (relational) or
\* UpdateOne (document)
UpdateProfileFirst(s) ==
    LET r == reqs[s]
        hit == FirstOf(pgUsers, IDIs(pgUsers, PgLookupKey(r.ctx)))
        oid == ObjectIDFromHex(GetString(r.ctx, "user_id"))
        upd == MgUpdateOne(mgUsers, mongoUnique, oid.id, r.body, now)
    IN
    /\ r.op = "UpdateProfile" /\ r.pc = "handler"
    /\ reqs' = [reqs EXCEPT ![s] =
         IF ~ValidUpdate(r.body)
         THEN Done(r, JSON(StatusBadRequest,
                  ErrorResponse(LocalizerGet(r.lang, "validation_error"), "binding")))
         ELSE IF Backend = "none" THEN Done(r, NoResponse)
         ELSE IF Backend = "postgres"
         THEN IF ~hit.found THEN Done(r, NotFound(r.lang))
              ELSE [r EXCEPT !.pc = "second", !.user = hit.user]
         ELSE IF ~oid.ok THEN Done(r, InvalidID(r.lang))
              ELSE IF upd.err THEN Done(r, UpdateFailed(r.lang, "Failed to update profile"))
              ELSE [r EXCEPT !.pc = "second"]]
    /\ mgUsers' = IF ValidUpdate(r.body) /\ Backend = "mongo" /\ oid.ok
                  THEN upd.rows ELSE mgUsers
    /\ UNCHANGED <<postgresDB, mongoDB, mongoUnique, pgUsers, pgSeq, mgSeq,
                   held, conc, chain, config, l10n, limiter, now, issued, checked>>

\* UpdateProfile from its second storage call on: Save (relational) or
\* FindOne (document)
UpdateProfileSecond(s) ==
    LET r == reqs[s]
        user == ApplyFields(r.user, r.body, now)
        saved == PgSave(pgUsers, user)
        oid == ObjectIDFromHex(GetString(r.ctx, "user_id"))
        hit == FirstOf(mgUsers, IDIs(mgUsers, oid.id))
    IN
    /\ r.op = "UpdateProfile" /\ r.pc = "second"
    /\ reqs' = [reqs EXCEPT ![s] =
         IF Backend = "postgres"
         THEN IF saved.err THEN Done(r, UpdateFailed(r.lang, "Failed to update profile"))
              ELSE Done([r EXCEPT !.user = user], Updated(r.lang, user))
         ELSE IF ~hit.found
              THEN Done(r, UpdateFailed(r.lang, "Failed to retrieve updated profile"))
              ELSE Done([r EXCEPT !.user = hit.user], Updated(r.lang, hit.user))]
    /\ pgUsers' = IF Backend = "postgres" THEN saved.rows ELSE pgUsers
    /\ UNCHANGED <<postgresDB, mongoDB, mongoUnique, pgSeq, mgUsers, mgSeq,
                   held, conc, chain, config, l10n, limiter, now, issued, checked>>

(***************************************************************************)
(* GET /health                                                             *)
(***************************************************************************)
RouteHealth(s) ==
    /\ s <= conc
    /\ reqs[s] = Idle
    /\ reqs' = [reqs EXCEPT ![s] = NewRequest("HealthCheck", "handler", "", NoAuth, EmptyBody)]
    /\ UNCHANGED <<postgresDB, mongoDB, mongoUnique, pgUsers, pgSeq, mgUsers, mgSeq,
                   held, conc, chain, config, l10n, limiter, now, issued, checked>>

HealthText(ok) == IF ok THEN "healthy" ELSE "unhealthy"

\* a health check whose document-store result overwrites the overall status
HealthLastWins(postgres, mongo, pgPing, mgPing) ==
    LET configured == (IF postgres THEN {"postgresql"} ELSE {})
                      \cup (IF mongo THEN {"mongodb"} ELSE {})
        services == [k \in configured |->
                        IF k = "postgresql" THEN HealthText(pgPing) ELSE HealthText(mgPing)]
        overallStatus == IF mongo THEN HealthText(mgPing)
                         ELSE IF postgres THEN HealthText(pgPing) ELSE "healthy"
    IN [services |-> services,
        overallStatus |-> overallStatus,
        resp |-> IF overallStatus = "healthy"
                 THEN JSON(StatusOK, SuccessResponse("System is healthy",
                         [kind |-> "HealthResponse", status |-> overallStatus,
                          services |-> services, version |-> "1.0.0"]))
                 ELSE JSON(StatusServiceUnavailable,
                         ErrorResponse("System is unhealthy", "One or more services are down"))]

\* HealthHandler.HealthCheck, given what the two pings return
HealthHandler(postgres, mongo, pgPing, mgPing) ==
    LET configured == (IF postgres THEN {"postgresql"} ELSE {})
                      \cup (IF mongo THEN {"mongodb"} ELSE {})
        services == [k \in configured |->
                        IF k = "postgresql" THEN HealthText(pgPing) ELSE HealthText(mgPing)]
        overallStatus == IF (postgres /\ ~pgPing) \/ (mongo /\ ~mgPing)
                         THEN "unhealthy" ELSE "healthy"
    IN [services |-> services,
        overallStatus |-> overallStatus,
        resp |-> IF overallStatus = "healthy"
                 THEN JSON(StatusOK, SuccessResponse("System is healthy",
                         [kind |-> "HealthResponse", status |-> overallStatus,
                          services |-> services, version |-> "1.0.0"]))
                 ELSE JSON(StatusServiceUnavailable,
                         ErrorResponse("System is unhealthy", "One or more services are down"))]

HealthCheck(s) ==
    LET r == reqs[s]
    IN
    /\ r.op = "HealthCheck" /\ r.pc = "handler"
    /\ \E pgPing \in BOOLEAN, mgPing \in BOOLEAN :
         LET h == HealthHandler(postgresDB, mongoDB, pgPing, mgPing)
         IN reqs' = [reqs EXCEPT ![s] =
                Done([r EXCEPT !.services = h.services, !.overall = h.overallStatus],
                     h.resp)]
    /\ UNCHANGED <<postgresDB, mongoDB, mongoUnique, pgUsers, pgSeq, mgUsers, mgSeq,
                   held, conc, chain, config, l10n, limiter, now, issued, checked>>

(***************************************************************************)
(* GET /users                                                              *)
(***************************************************************************)
\* binding:"min=1" on Page, binding:"min=1,max=100" on PageSize
ValidQuery(b) ==
    /\ ~IntIsNeg(b.page) /\ ~IntIsZero(b.page)
    /\ b.page_size >= MinPage /\ b.page_size <= MaxPageSize

\* 2^62 + 1 and 328 * 2^48 + 1: page numbers an int holds and min=1 accepts
HugePage == <<1, 0, 0, 16384>>
HugerPage == <<1, 0, 0, 328>>

Pages == {GoInt(1), GoInt(2), GoInt(3), HugePage, HugerPage}
PageSizes == {1, 2, MaxPageSize}
Searches == {"", "ann"}

QueryBody(p, ps, q) == [EmptyBody EXCEPT !.page = p, !.page_size = ps, !.search = q]

Queries ==
    {QueryBody(p, ps, q) : p \in Pages, ps \in PageSizes, q \in Searches}
    \cup {QueryBody(GoInt(0), DefaultPageSize, ""), QueryBody(GoInt(1), 0, ""),
          QueryBody(GoInt(1), MaxPageSize + 1, "")}

\* a client that is no administrator is stopped by RequireRole whatever it asks
RouteGetUsers(s) ==
    /\ s <= conc
    /\ reqs[s] = Idle
    /\ \E in \in Protected(FALSE, Queries) :
         /\ in.auth.token.claims.role \notin AdminRoles => in.body = QueryBody(GoInt(1), 1, "")
         /\ reqs' = [reqs EXCEPT ![s] =
                        NewRequest("GetUsers", "JWTAuth", NoLang, in.auth, in.body)]
    /\ UNCHANGED <<postgresDB, mongoDB, mongoUnique, pgUsers, pgSeq, mgUsers, mgSeq,
                   held, conc, chain, config, l10n, limiter, now, issued, checked>>

\* the search filter: ILIKE '%term%' / $regex on the four text columns
Matches(u, term) ==
    \/ term = ""
    \/ Contains(u.first_name, term) \/ Contains(u.last_name, term)
    \/ Contains(u.email, term) \/ Contains(u.username, term)

\* the records matching the search, in stored order
Matching(seq, term) ==
    LET F[i \in 0..Len(seq)] ==
            IF i = 0 THEN <<>>
            ELSE IF Matches(seq[i], term) THEN Append(F[i - 1], seq[i]) ELSE F[i - 1]
    IN F[Len(seq)]

Reverse(seq) == [i \in 1..Len(seq) |-> seq[Len(seq) + 1 - i]]

Min(a, b) == IF a < b THEN a ELSE b

\* offset := (query.Page - 1) * query.PageSize
Offset(page, pageSize) == IntMul(IntPred(page), pageSize)

\* db.Offset(offset).Limit(pageSize).Order("created_at DESC").Find: gorm writes
\* the OFFSET clause only for an offset > 0
PgFind(rows, term, offset, limit) ==
    LET hits == Reverse(Matching(rows, term))
        skip == IF IntIsNeg(offset) THEN 0 ELSE SkipCount(offset, Len(hits))
    IN [err |-> FALSE, rows |-> SubSeq(hits, skip + 1, Min(Len(hits), skip + limit))]

\* collection.Find(filter, SetSkip(skip).SetLimit(limit)): the server turns a
\* negative skip down
MgFind(docs, term, offset, limit) ==
    LET hits == Matching(docs, term)
        skip == SkipCount(offset, Len(hits))
    IN IF IntIsNeg(offset) THEN [err |-> TRUE, rows |-> <<>>]
       ELSE [err |-> FALSE, rows |-> SubSeq(hits, skip + 1, Min(Len(hits), skip + limit))]

\* TotalPage: int((total + int64(pageSize) - 1) / int64(pageSize))
TotalPage(total, pageSize) == (total + pageSize - 1) \div pageSize

Paginated(query, rows, total) ==
    [kind |-> "PaginatedResponse",
     data |-> [i \in 1..Len(rows) |-> UserInfo(rows[i])],
     pagination |-> [page |-> query.page, page_size |-> query.page_size,
                     total |-> total, total_page |-> TotalPage(total, query.page_size)]]

\* GetUsers up to and including the count query
GetUsersCount(s) ==
    LET r == reqs[s]
    IN
    /\ r.op = "GetUsers" /\ r.pc = "handler"
    /\ reqs' = [reqs EXCEPT ![s] =
         IF ~ValidQuery(r.body)
         THEN Done(r, JSON(StatusBadRequest,
                  ErrorResponse(LocalizerGet(r.lang, "validation_error"), "binding")))
         ELSE IF Backend = "none" THEN Done(r, NoResponse)
         ELSE [r EXCEPT !.pc = "second",
                        !.total = Len(Matching(UsersOf(Backend), r.body.search))]]
    /\ UNCHANGED <<postgresDB, mongoDB, mongoUnique, pgUsers, pgSeq, mgUsers, mgSeq,
                   held, conc, chain, config, l10n, limiter, now, issued, checked>>

\* GetUsers from the find query to the response
GetUsersFind(s) ==
    LET r == reqs[s]
        offset == Offset(r.body.page, r.body.page_size)
        res == IF Backend = "postgres"
               THEN PgFind(pgUsers, r.body.search, offset, r.body.page_size)
               ELSE MgFind(mgUsers, r.body.search, offset, r.body.page_size)
    IN
    /\ r.op = "GetUsers" /\ r.pc = "second"
    /\ reqs' = [reqs EXCEPT ![s] =
         IF res.err
         THEN Done(r, JSON(StatusInternalServerError,
                  ErrorResponse(LocalizerGet(r.lang, "internal_error"),
                                "Failed to retrieve users")))
         ELSE Done(r, JSON(StatusOK, SuccessResponse("Users retrieved successfully",
                                        Paginated(r.body, res.rows, r.total))))]
    /\ UNCHANGED <<postgresDB, mongoDB, mongoUnique, pgUsers, pgSeq, mgUsers, mgSeq,
                   held, conc, chain, config, l10n, limiter, now, issued, checked>>

Next ==
    \E s \in Slots :
        \/ RouteRegister(s)
        \/ RegisterCheck(s)
        \/ RegisterCreate(s)
        \/ RouteLogin(s)
        \/ Login(s)
        \/ RouteGetProfile(s)
        \/ JWTAuthStep(s)
        \/ RequireRoleStep(s)
        \/ GetProfile(s)
        \/ RoutePutProfile(s)
        \/ UpdateProfileFirst(s)
        \/ UpdateProfileSecond(s)
        \/ RouteGetUsers(s)
        \/ GetUsersCount(s)
        \/ GetUsersFind(s)
        \/ RouteHealth(s)
        \/ HealthCheck(s)
        \/ Reply(s)

Spec == Init /\ [][Next]_vars

(***************************************************************************)
(* Concurrent service of the requests that write to the store.             *)
(***************************************************************************)
NextConc ==
    \E s \in Slots :
        \/ RouteRegister(s)
        \/ RegisterCheck(s)
        \/ RegisterCreate(s)
        \/ RoutePutProfile(s)
        \/ JWTAuthStep(s)
        \/ UpdateProfileFirst(s)
        \/ UpdateProfileSecond(s)
        \/ Reply(s)

SpecConc == InitConc /\ [][NextConc]_vars

(***************************************************************************)
(* The token life cycle against the clock: GenerateToken and ValidateToken *)
(* at instants around the issue and the expiry of a token.                 *)
(***************************************************************************)
ClockPoints ==
    (0..ClockSlack) \cup ((TokenTTL - ClockSlack)..(TokenTTL + 2 * ClockSlack))

InitToken ==
    /\ postgresDB = FALSE /\ mongoDB = FALSE /\ mongoUnique = FALSE
    /\ pgUsers = <<>> /\ pgSeq = 0 /\ mgUsers = <<>> /\ mgSeq = 0
    /\ reqs = [s \in Slots |-> Idle]
    /\ held = NoToken
    /\ conc = 1
    /\ now = 0
    /\ issued = {}
    /\ checked = [token |-> NoToken, secret |-> "", at |-> 0, ok |-> FALSE]
    /\ chain = NoChain
    /\ config = NoConfig
    /\ l10n = NoCall
    /\ limiter = NoLimiter

\* time passes
Advance ==
    /\ \E t \in ClockPoints : t > now /\ now' = t
    /\ UNCHANGED <<postgresDB, mongoDB, mongoUnique, pgUsers, pgSeq, mgUsers, mgSeq,
                   reqs, held, conc, chain, config, l10n, limiter, issued, checked>>

\* GenerateToken for a user; the clock may move between its three readings
TokenIssue ==
    /\ now <= ClockSlack
    /\ issued = {}
    /\ \E t2 \in now..ClockSlack, u \in Usernames :
         \E t3 \in t2..ClockSlack :
            LET gen == GenerateToken(JWTSecret, UintID(1), SeedEmail, u, "user",
                                     now, t2, t3)
            IN /\ issued' = issued \cup {[token |-> gen.token,
                                          expiresAt |-> gen.expiresAt, at |-> now]}
               /\ now' = t3
    /\ UNCHANGED <<postgresDB, mongoDB, mongoUnique, pgUsers, pgSeq, mgUsers, mgSeq,
                   reqs, held, conc, chain, config, l10n, limiter, checked>>

\* ValidateToken of an issued token with the server's secret or another one
TokenValidate ==
    /\ \E i \in issued, secret \in {JWTSecret, OtherSecret} :
         checked' = [token |-> i.token, secret |-> secret, at |-> now,
                     ok |-> ValidateToken(secret, i.token, now).ok]
    /\ UNCHANGED <<postgresDB, mongoDB, mongoUnique, pgUsers, pgSeq, mgUsers, mgSeq,
                   reqs, held, conc, chain, config, l10n, limiter, now, issued>>

NextToken == Advance \/ TokenIssue \/ TokenValidate

SpecToken == InitToken /\ [][NextToken]_vars

(***************************************************************************)
(* The middleware chain of one request: Recovery, then RateLimiter and     *)
(* Timeout of SetupRoutes, then, on the goroutine Timeout starts, the      *)
(* route's own middleware and its handler.                                 *)
(***************************************************************************)
\* the engine is built with Recovery as its outermost middleware, before
\* SetupRoutes adds RateLimiter and Timeout
RecoveryInstalled == TRUE

\* gin's responseWriter: the first status written stays, bodies are appended
Write(resp, code, by) ==
    [status |-> IF resp.status = 0 THEN code ELSE resp.status,
     body |-> Append(resp.body, by)]

\* the stages a panic is raised in
Faults == {"none", "RateLimiter", "handler"}

OtherVars == <<postgresDB, mongoDB, mongoUnique, pgUsers, pgSeq, mgUsers, mgSeq,
               reqs, held, conc, now, issued, checked, config, l10n, limiter>>

\* net/http hands a request to the engine; the goroutine of an earlier
\* request that is still running has ended before the next one is followed
ChainServe ==
    /\ chain.up /\ chain.main = "idle" /\ chain.served < MaxServed
    /\ chain.worker \in {"none", "sent"}
    /\ \E fault \in Faults :
         chain' = [NoChain EXCEPT !.main = "RateLimiter", !.fault = fault,
                                  !.served = chain.served, !.last = chain.last,
                                  !.late = chain.late]
    /\ UNCHANGED OtherVars

\* RateLimiter calls c.Next(); a panic in it unwinds to the deferred recover
\* of Recovery, whose handler writes the 500 envelope
ChainRateLimiter ==
    /\ chain.main = "RateLimiter"
    /\ chain' = IF chain.fault # "RateLimiter"
                THEN [chain EXCEPT !.main = "Timeout"]
                ELSE IF RecoveryInstalled
                THEN [chain EXCEPT !.main = "returned",
                         !.resp = Write(chain.resp, StatusInternalServerError, "Recovery")]
                ELSE [chain EXCEPT !.up = FALSE, !.main = "dead"]
    /\ UNCHANGED OtherVars

\* Timeout: go func() { c.Next(); done <- true }()
ChainTimeout ==
    /\ chain.main = "Timeout"
    /\ chain' = [chain EXCEPT !.main = "select", !.worker = "running"]
    /\ UNCHANGED OtherVars

\* the deadline of context.WithTimeout passes; a goroutine parked in the
\* select is woken on the case <-ctx.Done()
ChainExpire ==
    /\ chain.main \in {"select", "parked", "resume"} /\ ~chain.expired
    /\ chain' = [chain EXCEPT !.expired = TRUE,
                              !.open = chain.worker \in {"running", "wrote"},
                              !.branch = IF chain.main = "parked" THEN "timeout" ELSE @,
                              !.main = IF chain.main = "parked" THEN "resume" ELSE @]
    /\ UNCHANGED OtherVars

\* Timeout reaches the select: a case that is ready is taken (any one of
\* them when both are), otherwise the goroutine parks
ChainSelect ==
    /\ chain.main = "select"
    /\ LET ready == (IF chain.worker = "sent" THEN {"done"} ELSE {})
                     \cup (IF chain.expired THEN {"timeout"} ELSE {})
       IN IF ready = {}
          THEN chain' = [chain EXCEPT !.main = "parked"]
          ELSE \E b \in ready : chain' = [chain EXCEPT !.main = "resume", !.branch = b]
    /\ UNCHANGED OtherVars

\* the case taken: return, or c.AbortWithStatusJSON(408, ...) and return
ChainResume ==
    /\ chain.main = "resume"
    /\ chain' = IF chain.branch = "done"
                THEN [chain EXCEPT !.main = "returned"]
                ELSE [chain EXCEPT !.main = "returned", !.aborted = TRUE,
                         !.resp = Write(chain.resp, StatusRequestTimeout, "Timeout")]
    /\ UNCHANGED OtherVars

\* the handler, on the goroutine of Timeout, writes its response; the write
\* of a handler that outlived its request reaches no client of that request
WorkerWrite ==
    /\ chain.worker = "running" /\ chain.fault # "handler"
    /\ chain' = IF chain.main = "idle"
                THEN [chain EXCEPT !.worker = "wrote", !.late = TRUE]
                ELSE [chain EXCEPT !.worker = "wrote",
                         !.resp = Write(chain.resp, StatusOK, "handler")]
    /\ UNCHANGED OtherVars

\* after c.Abort() the c.Next() of a route middleware calls no further
\* handler: the rest of the chain returns without a write
WorkerAborted ==
    /\ chain.worker = "running" /\ chain.fault # "handler" /\ chain.aborted
    /\ chain' = [chain EXCEPT !.worker = "wrote"]
    /\ UNCHANGED OtherVars

\* a panic on the goroutine of Timeout: no deferred recover is on its
\* stack, the runtime ends the process
WorkerPanic ==
    /\ chain.worker = "running" /\ chain.fault = "handler"
    /\ chain' = [chain EXCEPT !.up = FALSE, !.main = "dead", !.worker = "dead"]
    /\ UNCHANGED OtherVars

\* done <- true (the channel has room for one value); a goroutine parked in
\* the select is woken on the case <-done
WorkerDone ==
    /\ chain.worker = "wrote"
    /\ chain' = [chain EXCEPT !.worker = "sent",
                              !.branch = IF chain.main = "parked" THEN "done" ELSE @,
                              !.main = IF chain.main = "parked" THEN "resume" ELSE @]
    /\ UNCHANGED OtherVars

\* the engine returns to net/http, which finishes the response
ChainFinish ==
    /\ chain.main = "returned"
    /\ chain' = [chain EXCEPT !.main = "idle", !.last = chain.resp,
                              !.served = chain.served + 1]
    /\ UNCHANGED OtherVars

NextChain ==
    \/ ChainServe \/ ChainRateLimiter \/ ChainTimeout \/ ChainExpire \/ ChainSelect
    \/ ChainResume \/ WorkerWrite \/ WorkerAborted \/ WorkerPanic \/ WorkerDone
    \/ ChainFinish

SpecChain == InitToken /\ [][NextChain]_vars

(***************************************************************************)
(* A Localizer is made for some default language and asked for texts.      *)
(***************************************************************************)
\* languages handed to NewLocalizer and to Get: the three with a table, one
\* without, and the empty string of a request without a language
CallLanguages == Languages \cup {"fr", ""}

\* keys handed to Get: the translated ones, one without translation, ""
CallKeys == Keys \cup {"no_such_key", ""}

InitLocalizer ==
    /\ postgresDB = FALSE /\ mongoDB = FALSE /\ mongoUnique = FALSE
    /\ pgUsers = <<>> /\ pgSeq = 0 /\ mgUsers = <<>> /\ mgSeq = 0
    /\ reqs = [s \in Slots |-> Idle]
    /\ held = NoToken
    /\ conc = 1
    /\ now = 0
    /\ issued = {}
    /\ checked = [token |-> NoToken, secret |-> "", at |-> 0, ok |-> FALSE]
    /\ chain = NoChain
    /\ config = NoConfig
    /\ limiter = NoLimiter
    /\ \E defaultLang \in CallLanguages :
         l10n = [NoCall EXCEPT !.DefaultLanguage = defaultLang]

\* text := l.Get(lang, key)
LocalizerCall ==
    /\ \E lang \in CallLanguages, key \in CallKeys :
         l10n' = [l10n EXCEPT !.called = TRUE, !.lang = lang, !.key = key,
                              !.text = Get(l10n.DefaultLanguage, lang, key)]
    /\ UNCHANGED <<postgresDB, mongoDB, mongoUnique, pgUsers, pgSeq, mgUsers, mgSeq,
                   reqs, held, conc, now, issued, checked, chain, config, limiter>>

SpecLocalizer == InitLocalizer /\ [][LocalizerCall]_vars

(***************************************************************************)
(* The process starts in some environment and loads its configuration.     *)
(***************************************************************************)
InitConfig ==
    /\ postgresDB = FALSE /\ mongoDB = FALSE /\ mongoUnique = FALSE
    /\ pgUsers = <<>> /\ pgSeq = 0 /\ mgUsers = <<>> /\ mgSeq = 0
    /\ reqs = [s \in Slots |-> Idle]
    /\ held = NoToken
    /\ conc = 1
    /\ now = 0
    /\ issued = {}
    /\ checked = [token |-> NoToken, secret |-> "", at |-> 0, ok |-> FALSE]
    /\ chain = NoChain
    /\ l10n = NoCall
    /\ limiter = NoLimiter
    /\ \E secret \in {"", JWTSecret}, mongo \in EnvValues, postgres \in EnvValues :
         config = [NoConfig EXCEPT !.env =
                      [k \in EnvKeys |-> CASE k = "JWT_SECRET" -> secret
                                           [] k = "MONGODB_ENABLED" -> mongo
                                           [] k = "POSTGRES_ENABLED" -> postgres]]

\* cfg := config.Load()
ConfigLoad ==
    /\ ~config.loaded
    /\ config' = [config EXCEPT !.loaded = TRUE, !.cfg = Load(config.env)]
    /\ UNCHANGED <<postgresDB, mongoDB, mongoUnique, pgUsers, pgSeq, mgUsers, mgSeq,
                   reqs, held, conc, now, issued, checked, chain, l10n, limiter>>

SpecConfig == InitConfig /\ [][ConfigLoad]_vars

(***************************************************************************)
(* Register when the signing of the token fails.  GenerateToken returns    *)
(* the error of token.SignedString, and Register tests it after the insert *)
(* has been made: the handler answers 500 and returns.                     *)
(***************************************************************************)
\* Create or InsertOne succeeds, GenerateToken returns err != nil
RegisterCreateSignError(s) ==
    LET r == reqs[s]
        res == IF Backend = "postgres"
               THEN PgCreate(pgUsers, pgSeq, r.user)
               ELSE MgInsertOne(mgUsers, mgSeq, mongoUnique, r.user)
    IN
    /\ r.op = "Register" /\ r.pc = "create"
    /\ ~res.err
    /\ IF Backend = "postgres"
       THEN pgUsers' = res.rows /\ pgSeq' = res.seq /\ UNCHANGED <<mgUsers, mgSeq>>
       ELSE mgUsers' = res.rows /\ mgSeq' = res.seq /\ UNCHANGED <<pgUsers, pgSeq>>
    /\ reqs' = [reqs EXCEPT ![s] =
         Done(r, JSON(StatusInternalServerError,
                 ErrorResponse(LocalizerGet(r.lang, "internal_error"),
                               "Failed to generate token")))]
    /\ UNCHANGED <<postgresDB, mongoDB, mongoUnique, held, conc, chain, config, l10n, limiter, now, issued, checked>>

\* the service with a signing step that can fail
SpecSign == Init /\ [][Next \/ \E s \in Slots : RegisterCreateSignError(s)]_vars

(***************************************************************************)
(* The rate limiter on its own: requests of a few client addresses pass    *)
(* through the handler RateLimiter returns while the clock advances.  The  *)
(* handler holds no lock: it reads the table, decides, and writes the      *)
(* table, and another goroutine can run between the read and the write.    *)
(***************************************************************************)
\* the requests inside the handler at the same time
Flights == 1..conc

\* the admissions a client's entry stands for: every request let through
\* since the window of the entry was opened
Opened(cl, t) == IF cl.present /\ t <= cl.resetTime THEN cl.passed + 1 ELSE 1

\* a request of address ip enters the handler: clientIP := c.ClientIP()
LimiterArrive(s) ==
    /\ ~limiter.fatal
    /\ limiter.flight[s].pc = "idle"
    /\ \E ip \in Addresses :
         /\ ip # "10.0.0.1" => limiter.clients[ip].requests < MaxOtherRequests
         /\ limiter' = [limiter EXCEPT !.flight[s] = [NoFlight EXCEPT !.pc = "check", !.ip = ip]]
    /\ UNCHANGED <<postgresDB, mongoDB, mongoUnique, pgUsers, pgSeq, mgUsers, mgSeq,
                   reqs, held, conc, now, issued, checked, chain, config, l10n>>

\* now := time.Now() and the reads of clients[clientIP] that choose the case
LimiterCheck(s) ==
    /\ ~limiter.fatal
    /\ limiter.flight[s].pc = "check"
    /\ LET f == limiter.flight[s]
           cl == limiter.clients[f.ip]
       IN limiter' = [limiter EXCEPT !.flight[s] =
                         [f EXCEPT !.pc = "write", !.at = now, !.branch = Branch(cl, now),
                                   !.seen = cl.requests]]
    /\ UNCHANGED <<postgresDB, mongoDB, mongoUnique, pgUsers, pgSeq, mgUsers, mgSeq,
                   reqs, held, conc, now, issued, checked, chain, config, l10n>>

\* the writes of the case chosen, then c.Next() or the 429 and c.Abort().
\* Two goroutines that assign to the map at once are a data race: the
\* runtime either lets both assignments happen or stops the process with
\* "concurrent map writes".
LimiterWrite(s) ==
    /\ ~limiter.fatal
    /\ limiter.flight[s].pc = "write"
    /\ LET f == limiter.flight[s]
           cl == limiter.clients[f.ip]
           pass == [f EXCEPT !.pc = "done", !.next = TRUE]
           racing == \E o \in Flights \ {s} :
                        /\ limiter.flight[o].pc = "write"
                        /\ limiter.flight[o].branch = "new"
       IN CASE f.branch = "new" ->
                 \/ limiter' = [limiter EXCEPT
                        !.clients[f.ip] = [present |-> TRUE, requests |-> 1,
                                           resetTime |-> f.at + Window,
                                           passed |-> Opened(cl, f.at)],
                        !.flight[s] = pass]
                 \/ /\ racing
                    /\ limiter' = [limiter EXCEPT !.fatal = TRUE]
            [] f.branch = "reset" ->
                 limiter' = [limiter EXCEPT
                        !.clients[f.ip] = [cl EXCEPT !.requests = 1,
                                                     !.resetTime = f.at + Window,
                                                     !.passed = Opened(cl, f.at)],
                        !.flight[s] = pass]
            [] f.branch = "limit" ->
                 limiter' = [limiter EXCEPT
                        !.flight[s] = [f EXCEPT !.pc = "done", !.aborted = TRUE,
                                         !.resp = JSON(StatusTooManyRequests,
                                                       ErrorResponse("Rate limit exceeded",
                                                         "Too many requests, please try again later"))]]
            [] f.branch = "count" ->
                 limiter' = [limiter EXCEPT
                        !.clients[f.ip] = [cl EXCEPT !.requests = f.seen + 1,
                                                     !.passed = @ + 1],
                        !.flight[s] = pass]
    /\ UNCHANGED <<postgresDB, mongoDB, mongoUnique, pgUsers, pgSeq, mgUsers, mgSeq,
                   reqs, held, conc, now, issued, checked, chain, config, l10n>>

\* the request leaves the server
LimiterLeave(s) ==
    /\ ~limiter.fatal
    /\ limiter.flight[s].pc = "done"
    /\ limiter' = [limiter EXCEPT !.flight[s] = NoFlight]
    /\ UNCHANGED <<postgresDB, mongoDB, mongoUnique, pgUsers, pgSeq, mgUsers, mgSeq,
                   reqs, held, conc, now, issued, checked, chain, config, l10n>>

\* time passes: a few ticks at the start, then to the reset time of an entry
\* and to the tick after it
LimiterAdvance ==
    /\ ~limiter.fatal
    /\ \E t \in {now + 1} \cup
                UNION {{limiter.clients[a].resetTime, limiter.clients[a].resetTime + 1} :
                          a \in {b \in Addresses : limiter.clients[b].present}} :
         /\ t > now
         /\ t = now + 1 => now < MaxOffset
         /\ t <= MaxWindows * (Window + 1) + MaxOffset
         /\ now' = t
    /\ UNCHANGED <<postgresDB, mongoDB, mongoUnique, pgUsers, pgSeq, mgUsers, mgSeq,
                   reqs, held, conc, chain, config, l10n, limiter, issued, checked>>

NextLimiter ==
    \/ \E s \in Flights : LimiterArrive(s)
    \/ \E s \in Flights : LimiterCheck(s)
    \/ \E s \in Flights : LimiterWrite(s)
    \/ \E s \in Flights : LimiterLeave(s)
    \/ LimiterAdvance

\* one request at a time
SpecLimiter == InitToken /\ [][NextLimiter]_vars

\* the entry of a client after n requests at instant 0, one after another
Served(n) ==
    IF n = 0 THEN NoClient
    ELSE [present |-> TRUE, requests |-> n, resetTime |-> Window, passed |-> n]

\* the table is empty, or the client is a few requests below the limit
InitLimiterConc ==
    /\ postgresDB = FALSE /\ mongoDB = FALSE /\ mongoUnique = FALSE
    /\ pgUsers = <<>> /\ pgSeq = 0 /\ mgUsers = <<>> /\ mgSeq = 0
    /\ reqs = [s \in Slots |-> Idle]
    /\ held = NoToken
    /\ conc = MaxInflight
    /\ now = 0
    /\ issued = {}
    /\ checked = [token |-> NoToken, secret |-> "", at |-> 0, ok |-> FALSE]
    /\ chain = NoChain
    /\ config = NoConfig
    /\ l10n = NoCall
    /\ \E served \in {0, Limit - MaxInflight} :
         limiter = [NoLimiter EXCEPT !.clients["10.0.0.1"] = Served(served)]

\* a further request of the client enters the handler
LimiterArriveConc(s) ==
    /\ ~limiter.fatal
    /\ limiter.flight[s].pc = "idle"
    /\ limiter.arrived < MaxArrivals
    /\ limiter' = [limiter EXCEPT
                      !.flight[s] = [NoFlight EXCEPT !.pc = "check", !.ip = "10.0.0.1"],
                      !.arrived = @ + 1]
    /\ UNCHANGED <<postgresDB, mongoDB, mongoUnique, pgUsers, pgSeq, mgUsers, mgSeq,
                   reqs, held, conc, now, issued, checked, chain, config, l10n>>

\* requests of one client inside the handler at the same time, within the
\* window its first request opens
NextLimiterConc ==
    \/ \E s \in Flights : LimiterArriveConc(s)
    \/ \E s \in Flights : LimiterCheck(s)
    \/ \E s \in Flights : LimiterWrite(s)
    \/ \E s \in Flights : LimiterLeave(s)

SpecLimiterConc == InitLimiterConc /\ [][NextLimiterConc]_vars

(***************************************************************************)
(* Properties.                                                             *)
(***************************************************************************)
\* the records of the backend the handlers use
Users == UsersOf(Backend)

\* the id a token names is the id of record u
Names(tk, u) == tk.claims.user_id.v = u.id.v

\* slot s answers its request in this step
Answers(s, op) == reqs[s].op = op /\ reqs[s].pc # "done" /\ reqs'[s].pc = "done"

\* slot s has answered a request of kind op
Answered(s, op) == reqs[s].op = op /\ reqs[s].pc = "done"

\* C1: with a backend configured, a valid Register whose email and username
\* are absent from storage answers 201 with a token whose claims (user id,
\* email, username, role) are the fields of the record just created, and a
\* Login with the email and the password of a stored user answers 200 with a
\* token for that user.
C1_RegisterThenLogin ==
    [][\A s \in Slots :
         /\ (Answers(s, "Register") /\ reqs[s].pc = "create") =>
               LET resp == reqs'[s].resp
                   rows == UsersOf(Backend)'
                   created == rows[Len(rows)]
               IN /\ resp.status = StatusCreated
                  /\ Len(rows) = Len(Users) + 1
                  /\ created.email = reqs[s].body.email
                  /\ created.username = reqs[s].body.username
                  /\ Names(resp.body.data.token, created)
                  /\ resp.body.data.token.claims.email = created.email
                  /\ resp.body.data.token.claims.username = created.username
                  /\ resp.body.data.token.claims.role = created.role
         /\ (Answers(s, "Login") /\ Backend # "none") =>
               \A u \in Range(Users) :
                  (u.email = reqs[s].body.email
                   /\ VerifyPassword(u.password, reqs[s].body.password)) =>
                     /\ reqs'[s].resp.status = StatusOK
                     /\ reqs'[s].resp.body.data.kind = "AuthResponse"
                     /\ Names(reqs'[s].resp.body.data.token, u)
      ]_vars

C3_UniqueEmailAndUsername ==
    \A rows \in {pgUsers, mgUsers} :
        \A i, j \in 1..Len(rows) :
            i # j => rows[i].email # rows[j].email /\ rows[i].username # rows[j].username

\* C4: with a backend configured, GetProfile called with a token that names a
\* stored user answers 200 with the public fields of that user, and it answers
\* 404 only when the token names no stored user.
C4_OwnProfile ==
    [][\A s \in Slots :
         (Answers(s, "GetProfile") /\ reqs[s].pc = "handler" /\ Backend # "none") =>
            LET owners == {u \in Range(Users) : Names(reqs[s].auth.token, u)}
                resp == reqs'[s].resp
            IN /\ \A u \in owners :
                     resp.status = StatusOK /\ resp.body.data = UserInfo(u)
               /\ resp.status = StatusNotFound => owners = {}
      ]_vars

\* the positions in rows of the records a token names
Mine(rows, tk) == {i \in 1..Len(rows) : Names(tk, rows[i])}

\* C5: a step of UpdateProfile changes no record but the caller's, adds and
\* removes none, and changes of the caller's record only first name, last name
\* and email (and the update stamp): each to the supplied value when that is
\* a non-empty string, not at all otherwise; an UpdateProfile answered 200
\* leaves every supplied non-empty field stored and returned.  The relational
\* assignments followed by Save do the same to the row they were loaded from.
C5_UpdateFrame ==
    [][/\ \A i \in 1..Len(pgUsers), b \in UpdateBodies(FALSE) :
            LET Applied(was, given) == IF given # "" THEN given ELSE was
                user == ApplyFields(pgUsers[i], b, now)
                saved == PgSave(pgUsers, user)
            IN ~saved.err =>
                  /\ Len(saved.rows) = Len(pgUsers)
                  /\ \A j \in 1..Len(pgUsers) : j # i => saved.rows[j] = pgUsers[j]
                  /\ saved.rows[i] =
                        [pgUsers[i] EXCEPT
                            !.first_name = Applied(@, b.first_name),
                            !.last_name = Applied(@, b.last_name),
                            !.email = Applied(@, b.email),
                            !.updated_at = saved.rows[i].updated_at]
       /\ \A s \in Slots :
         (reqs[s].op = "UpdateProfile" /\ reqs'[s] # reqs[s]) =>
            LET b == reqs[s].body
                old == Users
                new == UsersOf(Backend)'
                Applied(was, given) == IF given # "" THEN given ELSE was
            IN /\ Len(new) = Len(old)
               /\ \A i \in 1..Len(old) :
                     IF i \in Mine(old, reqs[s].auth.token) /\ new[i] # old[i]
                     THEN /\ new[i].first_name = Applied(old[i].first_name, b.first_name)
                          /\ new[i].last_name = Applied(old[i].last_name, b.last_name)
                          /\ new[i].email = Applied(old[i].email, b.email)
                          /\ new[i].username = old[i].username
                          /\ new[i].role = old[i].role
                          /\ new[i].is_active = old[i].is_active
                          /\ new[i].password = old[i].password
                          /\ new[i].id = old[i].id
                          /\ new[i].created_at = old[i].created_at
                     ELSE new[i] = old[i]
               /\ (reqs'[s].pc = "done" /\ reqs'[s].resp.status = StatusOK
                   /\ reqs'[s].resp.written) =>
                     \E i \in Mine(new, reqs[s].auth.token) :
                        /\ reqs'[s].resp.body.data = UserInfo(new[i])
                        /\ b.first_name # "" => new[i].first_name = b.first_name
                        /\ b.last_name # "" => new[i].last_name = b.last_name
                        /\ b.email # "" => new[i].email = b.email
      ]_vars

\* C5 witness: an UpdateProfile with an empty first name and last name Smith
\* answered 200, the caller stored with the first name of the registration
\* and the new last name.
C5_Witness ==
    \E s \in Slots :
        /\ Answered(s, "UpdateProfile")
        /\ reqs[s].resp.status = StatusOK /\ reqs[s].resp.written
        /\ reqs[s].body.first_name = "" /\ reqs[s].body.last_name = "Smith"
        /\ \E i \in Mine(Users, reqs[s].auth.token) :
              Users[i].first_name = "Ann" /\ Users[i].last_name = "Smith"

\* the stored users without those of one email
Without(rows, email) ==
    LET F[i \in 0..Len(rows)] ==
            IF i = 0 THEN <<>>
            ELSE IF rows[i].email = email THEN F[i - 1] ELSE Append(F[i - 1], rows[i])
    IN F[Len(rows)]

\* C6: for every well-formed Login payload whose email is stored with another
\* password, Login run against the store and Login run against the same store
\* without that email write the same response, a 401 with the same message
\* and the same error string; and every Login answered 401 carries that
\* message and error string, whatever the store held.
C6_LoginIndistinguishable ==
    /\ \A b \in LoginBodies, lang \in Langs :
          LET r == NewRequest("Login", "handler", lang, NoAuth, b)
              known == \E u \in Range(Users) : u.email = b.email
              right == \E u \in Range(Users) :
                          u.email = b.email /\ VerifyPassword(u.password, b.password)
          IN (ValidLogin(b) /\ known /\ ~right) =>
                /\ LoginHandler(r, Users).status = StatusUnauthorized
                /\ LoginHandler(r, Users) = LoginHandler(r, Without(Users, b.email))
                /\ LoginHandler(r, Users) = LoginHandler(r, <<>>)
    /\ \A s \in Slots :
          (Answered(s, "Login") /\ reqs[s].resp.status = StatusUnauthorized) =>
             /\ reqs[s].resp.body.message =
                   (IF reqs[s].lang = "de" THEN "Ungueltige Anmeldedaten"
                    ELSE "Invalid credentials")
             /\ reqs[s].resp.body.error = "Authentication failed"
             /\ reqs[s].resp.body.data = NoData

\* C6 witness: a Login answered 401 for an email that is stored under
\* another password, in a store that also holds a user of another email.
C6_Witness ==
    \E s \in Slots :
        /\ Answered(s, "Login")
        /\ reqs[s].resp.status = StatusUnauthorized
        /\ \E u \in Range(Users) :
              u.email = reqs[s].body.email
              /\ ~VerifyPassword(u.password, reqs[s].body.password)
        /\ Without(Users, reqs[s].body.email) # <<>>

\* C7 as stated: a token issued at time t carries expiresAt = t + 24h,
\* issuedAt = t and notBefore = t; with the issuing secret it is accepted at
\* every time in [t, t + 24h) and rejected at every time after t + 24h; with
\* another secret it is rejected.
C7_TokenWindow ==
    \A i \in issued :
        /\ i.token.claims.exp = i.at + TokenTTL
        /\ i.token.claims.iat = i.at
        /\ i.token.claims.nbf = i.at
        /\ checked.token = i.token =>
              /\ (checked.secret = JWTSecret /\ checked.at >= i.at
                  /\ checked.at < i.at + TokenTTL) => checked.ok
              /\ checked.at > i.at + TokenTTL => ~checked.ok
              /\ checked.secret # JWTSecret => ~checked.ok

\* C7 amended: the token's expiresAt is t + 24h cut to the whole second, its
\* issuedAt and notBefore are whole seconds not before the whole second of t
\* and not after the instant the token is handed out, and the expiry returned
\* with the token is t + 24h; with the issuing secret the token is accepted
\* exactly at the times before its expiresAt, hence rejected from the whole
\* second of t + 24h on; with another secret it is rejected.
C7_TokenWindowSeconds ==
    \A i \in issued :
        LET c == i.token.claims
            second == (i.at + TokenTTL) \div TicksPerSecond
        IN /\ c.exp = second * TicksPerSecond
           /\ i.expiresAt = i.at + TokenTTL
           /\ c.iat % TicksPerSecond = 0 /\ c.nbf % TicksPerSecond = 0
           /\ c.iat > i.at - TicksPerSecond /\ c.iat <= c.nbf /\ c.nbf <= now
           /\ checked.token = i.token =>
                 /\ checked.ok <=> (checked.secret = JWTSecret /\ checked.at < c.exp)
                 /\ checked.at > i.at + TokenTTL => ~checked.ok
                 /\ checked.secret # JWTSecret => ~checked.ok

\* C7 witness: a token issued between two whole seconds, turned down with the
\* issuing secret at a time before t + 24h.
C7_Witness ==
    \E i \in issued :
        /\ i.at % TicksPerSecond # 0
        /\ checked.token = i.token /\ checked.secret = JWTSecret
        /\ checked.at >= i.at /\ checked.at < i.at + TokenTTL
        /\ ~checked.ok

\* C8: GetUsers with a valid query answers 200 with min(s, max(0, T - (p-1)*s))
\* rows, where T is the number of users matching the search, p the page and s
\* the page size, and with pagination total T, page p, page size s and total
\* pages ceil(T / s).
C8_Pagination ==
    [][\A s \in Slots :
         (Answers(s, "GetUsers") /\ reqs[s].pc = "second") =>
            LET b == reqs[s].body
                resp == reqs'[s].resp
                T == Cardinality({i \in 1..Len(Users) : Matches(Users[i], b.search)})
                small == b.page[2] = 0 /\ b.page[3] = 0 /\ b.page[4] = 0
                before == (b.page[1] - 1) * b.page_size
                expected == IF ~small \/ before >= T THEN 0
                            ELSE IF T - before < b.page_size THEN T - before
                            ELSE b.page_size
                pages == CHOOSE n \in 0..T :
                            n * b.page_size >= T /\ (n = 0 \/ (n - 1) * b.page_size < T)
            IN /\ resp.status = StatusOK
               /\ resp.body.data.kind = "PaginatedResponse"
               /\ Len(resp.body.data.data) = expected
               /\ resp.body.data.pagination.total = T
               /\ resp.body.data.pagination.page = b.page
               /\ resp.body.data.pagination.page_size = b.page_size
               /\ resp.body.data.pagination.total_page = pages
      ]_vars

Contexts ==
    {EmptyCtx, [user_id |-> Float64(1)]}
    \cup {[user_id |-> Float64(1), user_role |-> Str(role)] :
             role \in {"user", "admin", "superadmin", ""}}

\* C10: a GetUsers request reaches the handler only with a valid token whose
\* role is admin or superadmin; with a valid token of another role it is
\* answered 403 by RequireRole and never reaches the handler; RequireRole
\* answers 401 and aborts on a context without a role, 403 on a role that is
\* not required, and lets pass only a required role.
C10_AdminOnly ==
    /\ \A s \in Slots :
          reqs[s].op = "GetUsers" =>
             LET v == ValidateToken(JWTSecret, reqs[s].auth.token, now)
                 admin == reqs[s].auth.kind = "bearer" /\ v.ok /\ v.claims.role \in AdminRoles
             IN /\ reqs[s].pc \in {"handler", "second"} => admin
                /\ (reqs[s].pc = "done" /\ ~admin) =>
                      /\ reqs[s].resp.status \in {StatusUnauthorized, StatusForbidden}
                      /\ reqs[s].total = 0
                /\ (reqs[s].pc = "done" /\ reqs[s].auth.kind = "bearer" /\ v.ok /\ ~admin) =>
                      reqs[s].resp.status = StatusForbidden
    /\ \A ctx \in Contexts :
          LET a == RequireRole(ctx, AdminRoles)
          IN IF "user_role" \notin DOMAIN ctx
             THEN a.abort /\ a.resp.status = StatusUnauthorized
             ELSE IF ctx["user_role"].s \in {"admin", "superadmin"}
             THEN ~a.abort
             ELSE a.abort /\ a.resp.status = StatusForbidden

\* C10 witness: a GetUsers request with a valid token of role user, answered 403.
C10_Witness ==
    \E s \in Slots :
        /\ Answered(s, "GetUsers")
        /\ ValidateToken(JWTSecret, reqs[s].auth.token, now).ok
        /\ reqs[s].auth.token.claims.role = "user"
        /\ reqs[s].resp.status = StatusForbidden

\* the routes behind JWTAuth
ProtectedOps == {"GetProfile", "UpdateProfile", "GetUsers"}

\* the token of a request was signed with the server's secret, is well formed
\* and is inside its validity period at time t
GoodToken(auth, t) ==
    /\ auth.kind = "bearer"
    /\ ~auth.token.malformed
    /\ auth.token.key = JWTSecret
    /\ auth.token.claims.nbf <= t /\ t < auth.token.claims.exp

\* C11: a request to GetProfile, UpdateProfile or GetUsers whose Authorization
\* header is missing, is no Bearer header, or carries a token that is
\* malformed, signed with another key or expired is answered 401 by JWTAuth
\* and ends there, with the context and the stores untouched; a request gets
\* past JWTAuth only with a valid token, and then the context's user_id,
\* user_email, user_username and user_role are the token's claims.
C11_JWTAuthFirst ==
    [][/\ \A s \in Slots :
            (reqs[s].op \in ProtectedOps /\ reqs'[s] # reqs[s]) =>
               /\ reqs[s].pc \in {"RequireRole", "handler", "second"} =>
                     GoodToken(reqs[s].auth, now)
               /\ reqs[s].pc = "JWTAuth" =>
                     IF GoodToken(reqs[s].auth, now)
                     THEN /\ reqs'[s].pc \in {"RequireRole", "handler"}
                          /\ reqs'[s].ctx =
                                [user_id |-> reqs[s].auth.token.claims.user_id,
                                 user_email |-> Str(reqs[s].auth.token.claims.email),
                                 user_username |-> Str(reqs[s].auth.token.claims.username),
                                 user_role |-> Str(reqs[s].auth.token.claims.role)]
                     ELSE /\ reqs'[s].pc = "done"
                          /\ reqs'[s].resp.status = StatusUnauthorized
                          /\ reqs'[s].resp.body.success = FALSE
                          /\ reqs'[s].ctx = EmptyCtx
                          /\ pgUsers' = pgUsers /\ mgUsers' = mgUsers
       /\ held # NoToken =>
             \A t \in {held.claims.exp - 1, held.claims.exp, held.claims.exp + 1} :
                LET a == JWTAuth(Bearer(held), t)
                IN IF t < held.claims.exp
                   THEN ~a.abort
                   ELSE a.abort /\ a.resp.status = StatusUnauthorized /\ a.ctx = EmptyCtx
      ]_vars

\* C11 witness: an UpdateProfile request with a token signed with another key,
\* answered 401.
C11_Witness ==
    \E s \in Slots :
        /\ Answered(s, "UpdateProfile")
        /\ reqs[s].auth = Bearer(ForgedToken)
        /\ reqs[s].resp.status = StatusUnauthorized
        /\ reqs[s].ctx = EmptyCtx

\* the payload or query of a request breaks the schema of its endpoint
BreaksSchema(op, b) ==
    CASE op = "Register" ->
            \/ StrLen(b.password) < 6 \/ StrLen(b.username) < 3 \/ ~IsEmail(b.email)
            \/ b.first_name = "" \/ b.last_name = ""
      [] op = "Login" -> StrLen(b.password) < 6 \/ ~IsEmail(b.email)
      [] op = "UpdateProfile" -> b.email # "" /\ ~IsEmail(b.email)
      [] op = "GetUsers" ->
            \/ IntIsNeg(b.page) \/ b.page = <<0, 0, 0, 0>>
            \/ b.page_size < 1 \/ b.page_size > 100
      [] OTHER -> FALSE

\* C12: a Register, Login, UpdateProfile or GetUsers request whose payload or
\* query breaks the schema is answered by its handler with a 400 error
\* envelope in one step: nothing is hashed or loaded, no token is issued, no
\* count is taken and the stores are unchanged.
C12_ValidationFirst ==
    [][\A s \in Slots :
         (reqs[s].pc = "handler" /\ BreaksSchema(reqs[s].op, reqs[s].body)
          /\ reqs'[s] # reqs[s]) =>
            /\ reqs'[s].pc = "done"
            /\ reqs'[s].resp.written
            /\ reqs'[s].resp.status = StatusBadRequest
            /\ reqs'[s].resp.body.success = FALSE
            /\ reqs'[s].resp.body.data = NoData
            /\ reqs'[s].user = NoUser
            /\ reqs'[s].total = 0
            /\ pgUsers' = pgUsers /\ pgSeq' = pgSeq
            /\ mgUsers' = mgUsers /\ mgSeq' = mgSeq
            /\ held' = held
      ]_vars

\* C12 witness: a Register with a password shorter than 6 answered 400 while
\* a backend is configured.
C12_Witness ==
    \E s \in Slots :
        /\ Answered(s, "Register")
        /\ Backend # "none"
        /\ StrLen(reqs[s].body.password) < 6
        /\ reqs[s].resp.status = StatusBadRequest

\* C13: VerifyPassword(HashPassword(p), p) succeeds for every password p,
\* VerifyPassword(HashPassword(p1), p2) fails for all passwords p1 # p2, and a
\* Login answered 200 for a user carried exactly the password that user was
\* created with.
C13_PasswordRoundTrip ==
    /\ \A p1, p2 \in Passwords \cup {ShortPassword, LoopedPassword} :
          VerifyPassword(HashPassword(p1), p2) <=> p1 = p2
    /\ \A s \in Slots :
          (Answered(s, "Login") /\ reqs[s].resp.status = StatusOK /\ reqs[s].resp.written) =>
             LET name == reqs[s].resp.body.data.user.username
             IN reqs[s].body.password =
                   (IF name = SeedUsername THEN "secret1" ELSE PasswordOf(name))

\* the user records a response body carries
UserInfosIn(data) ==
    CASE data.kind = "UserInfo" -> {data}
      [] data.kind = "AuthResponse" -> {data.user}
      [] data.kind = "PaginatedResponse" -> {data.data[i] : i \in 1..Len(data.data)}
      [] OTHER -> {}

\* every password text a client of the model sends
PlainPasswords == Passwords \cup {ShortPassword, LoopedPassword}

\* C14: no response carries a password hash or a plaintext password: every
\* user record in a response has exactly the fields id, email, username, first
\* name, last name, role, active flag, creation and update stamps, a returned
\* token has exactly the claims user id, email, username, role and the three
\* dates, and no text of a response is a password.
C14_NoPasswordInResponse ==
    \A s \in Slots :
        reqs[s].resp.written =>
            LET body == reqs[s].resp.body
            IN /\ DOMAIN body = {"success", "message", "data", "error"}
               /\ body.message \notin PlainPasswords
               /\ body.error \notin PlainPasswords
               /\ \A u \in UserInfosIn(body.data) :
                     /\ DOMAIN u = {"kind", "id", "email", "username", "first_name",
                                    "last_name", "role", "is_active", "created_at",
                                    "updated_at"}
                     /\ {u.email, u.username, u.first_name, u.last_name, u.role}
                            \cap PlainPasswords = {}
               /\ body.data.kind = "AuthResponse" =>
                     /\ DOMAIN body.data = {"kind", "token", "user", "expires_at"}
                     /\ DOMAIN body.data.token.claims =
                            {"user_id", "email", "username", "role", "exp", "iat", "nbf"}

\* a GetUsers has answered 200 with the records of the stored users, the
\* stored password hashes left out
C14_Witness ==
    \E s \in Slots :
        /\ Answered(s, "GetUsers") /\ reqs[s].resp.written
        /\ reqs[s].resp.status = StatusOK
        /\ Len(reqs[s].resp.body.data.data) > 1
        /\ \A u \in UserInfosIn(reqs[s].resp.body.data) :
               \E i \in 1..Len(Users) :
                   Users[i].email = u.email /\ Users[i].password.alg = "bcrypt"

\* the ids of the stored records
IDs(rows) == {rows[i].id : i \in 1..Len(rows)}

\* C15: a record that a step adds to storage has role "user" and is active;
\* no step changes the role or the active flag of a stored record; a token
\* returned by Register or Login for a record created through the API carries
\* role "user".
C15_RoleUser ==
    [][/\ \A j \in 1..Len(Users') :
             Users'[j].id \notin IDs(Users) =>
                 Users'[j].role = "user" /\ Users'[j].is_active
       /\ \A i \in 1..Len(Users), j \in 1..Len(Users') :
             Users[i].id = Users'[j].id =>
                 /\ Users'[j].role = Users[i].role
                 /\ Users'[j].is_active = Users[i].is_active
       /\ \A s \in Slots :
             ((Answers(s, "Register") \/ Answers(s, "Login"))
                /\ reqs'[s].resp.body.data.kind = "AuthResponse"
                /\ reqs'[s].resp.body.data.user.username # SeedUsername) =>
                   /\ reqs'[s].resp.body.data.token.claims.role = "user"
                   /\ reqs'[s].resp.body.data.user.role = "user"
                   /\ reqs'[s].resp.body.data.user.is_active
      ]_vars

\* a user created by Register has changed the profile and then logged in: the
\* record and the token still say role "user"
C15_Witness ==
    \E s \in Slots, i \in 1..Len(Users) :
        /\ Answered(s, "Login") /\ reqs[s].resp.body.data.kind = "AuthResponse"
        /\ Users[i].username # SeedUsername
        /\ Users[i].first_name # RegisterBody(Users[i].email, Users[i].username, "secret1").first_name
        /\ reqs[s].resp.body.data.user.username = Users[i].username
        /\ reqs[s].resp.body.data.token.claims.role = "user"
        /\ Users[i].role = "user" /\ Users[i].is_active

\* the context JWTAuth builds from the claims of a token
ClaimsCtx(tk) ==
    [user_id |-> tk.claims.user_id,
     user_email |-> Str(tk.claims.email),
     user_username |-> Str(tk.claims.username),
     user_role |-> Str(tk.claims.role)]

\* C16: whatever storage holds, JWTAuth accepts the token the server issued
\* while it is inside its validity period, and sets the context to the claims
\* fixed when the token was issued; a request that is past JWTAuth carries
\* the claims of its token in the context, also when the record the token
\* names has another email by now or is not stored.
C16_TokenAlone ==
    /\ (held # NoToken /\ held.claims.nbf <= now /\ now < held.claims.exp) =>
          LET a == JWTAuth(Bearer(held), now)
          IN ~a.abort /\ a.ctx = ClaimsCtx(held)
    /\ \A s \in Slots :
          (reqs[s].op \in ProtectedOps /\ reqs[s].pc \in {"RequireRole", "handler", "second"}) =>
             reqs[s].ctx = ClaimsCtx(reqs[s].auth.token)

\* the holder of a token changed the email of the record; a later request with
\* the same token got past JWTAuth with the email of issuance in the context
C16_Witness ==
    \E s \in Slots, i \in 1..Len(Users) :
        /\ reqs[s].op \in ProtectedOps /\ reqs[s].pc = "handler"
        /\ reqs[s].auth = Bearer(held)
        /\ Names(held, Users[i])
        /\ Users[i].email # held.claims.email
        /\ reqs[s].ctx.user_email = Str(held.claims.email)

\* C17: on the relational backend a Register whose insert violates a
\* uniqueness constraint (another registration of the same email or username
\* got in between the pre-check and the insert) is answered 409, not 500, and
\* stores nothing.
C17_InsertConflict ==
    [][\A s \in Slots :
          (/\ Backend = "postgres"
           /\ Answers(s, "Register") /\ reqs[s].pc = "create"
           /\ ViolatesUnique(pgUsers, reqs[s].user, 0)) =>
              /\ reqs'[s].resp.status = StatusConflict
              /\ pgUsers' = pgUsers
      ]_vars

\* C18: for a request in which nothing panics, when the engine finishes the
\* response: if the rest of the chain had not returned when the deadline
\* passed, the client receives status 408 and the timeout envelope;
\* otherwise it receives the handler's status and the handler's body alone.
C18_TimeoutBound ==
    [][(chain.fault = "none" /\ chain.main = "returned" /\ chain'.main = "idle") =>
          IF chain.expired /\ chain.open
          THEN /\ chain'.last.status = StatusRequestTimeout
               /\ \E i \in 1..Len(chain'.last.body) : chain'.last.body[i] = "Timeout"
          ELSE chain'.last = [status |-> StatusOK, body |-> <<"handler">>]
      ]_vars

\* C19: a panic raised in RateLimiter, or in a route's middleware or handler
\* on the goroutine Timeout starts, leaves the process running, and the
\* request is answered 500 with the envelope Recovery writes.
C19_PanicRecovered ==
    /\ chain.up
    /\ (chain.fault # "none" /\ chain.main = "returned") =>
           chain.resp = [status |-> StatusInternalServerError, body |-> <<"Recovery">>]

\* C20: with POSTGRES_ENABLED unset the loaded configuration enables the
\* relational backend, with MONGODB_ENABLED unset it disables the document
\* backend, and a value that is set but is no boolean gives what the unset
\* variable gives.
C20_BackendDefaults ==
    config.loaded =>
        /\ config.env["POSTGRES_ENABLED"] = "" => config.cfg.PostgresDB.Enabled
        /\ config.env["MONGODB_ENABLED"] = "" => ~config.cfg.MongoDB.Enabled
        /\ \A k \in {"POSTGRES_ENABLED", "MONGODB_ENABLED"} :
              ParseBool(ToLower(config.env[k])).err =>
                 LET unset == Load([config.env EXCEPT ![k] = ""])
                 IN /\ config.cfg.PostgresDB.Enabled = unset.PostgresDB.Enabled
                    /\ config.cfg.MongoDB.Enabled = unset.MongoDB.Enabled

\* C21: Get(lang, key) returns the entry for key in lang's table when there
\* is one, otherwise the entry for key in the default language's table when
\* there is one, otherwise key itself; a language without a table and a
\* translated key give the text of the default language.
C21_GetFallback ==
    l10n.called =>
        LET tables == Translations
            d == l10n.DefaultLanguage
            inLang == l10n.lang \in Languages /\ l10n.key \in Keys
            inDefault == d \in Languages /\ l10n.key \in Keys
        IN /\ inLang => l10n.text = tables[l10n.lang][l10n.key]
           /\ (~inLang /\ inDefault) => l10n.text = tables[d][l10n.key]
           /\ (~inLang /\ ~inDefault) => l10n.text = l10n.key
           /\ (l10n.lang \notin Languages /\ l10n.key \in Keys /\ d = "de") =>
                  l10n.text = German(l10n.key)

\* a Localizer with default language German was asked for a translated key
\* in a language without a table and answered with the German text
C21_Witness ==
    /\ l10n.called /\ l10n.DefaultLanguage = "de"
    /\ l10n.lang = "fr" /\ l10n.key = "user_created"
    /\ l10n.text = "Benutzer erfolgreich erstellt"

\* the endpoints that use storage through one backend
StorageOps == {"Register", "Login", "GetProfile", "UpdateProfile", "GetUsers"}

\* C22: a handler step of Register, Login, GetProfile, UpdateProfile or
\* GetUsers uses one backend.  With the relational handle configured it leaves
\* the documents alone and its outcome is decided by the relational rows
\* alone, also when the document handle is configured; without the relational
\* handle it leaves the relational rows alone.
C22_OneBackend ==
    [][\A s \in Slots :
          LET r == reqs[s]
              q == reqs'[s]
          IN (q # r /\ r.op \in StorageOps /\ r.pc \in {"handler", "create", "second"}) =>
                IF postgresDB
                THEN /\ mgUsers' = mgUsers /\ mgSeq' = mgSeq
                     /\ (r.op = "Login" /\ ValidLogin(r.body)) =>
                            q.resp = LoginHandler(r, pgUsers)
                     /\ r.op = "GetProfile" =>
                            q.resp = GetProfileHandler(r, "postgres", pgUsers)
                     /\ (r.op = "Register" /\ r.pc = "handler" /\ ValidRegister(r.body)) =>
                            (q.pc = "done" <=>
                               \E u \in Range(pgUsers) :
                                   EmailOrUsername(u, r.body.email, r.body.username))
                     /\ (r.op = "Register" /\ r.pc = "create" /\ q.resp.status = StatusCreated) =>
                            Len(pgUsers') = Len(pgUsers) + 1
                     /\ (r.op = "UpdateProfile" /\ r.pc = "handler" /\ ValidUpdate(r.body)) =>
                            (q.pc = "done" <=> IDIs(pgUsers, PgLookupKey(r.ctx)) = {})
                     /\ (r.op = "GetUsers" /\ r.pc = "handler" /\ ValidQuery(r.body)) =>
                            q.total = Len(Matching(pgUsers, r.body.search))
                ELSE pgUsers' = pgUsers /\ pgSeq' = pgSeq
      ]_vars

\* both handles are configured; a Login was answered 200 for a user stored
\* in the relational backend of whom the document backend holds nothing
C22_Witness ==
    \E s \in Slots :
        /\ postgresDB /\ mongoDB
        /\ Answered(s, "Login") /\ reqs[s].resp.status = StatusOK /\ reqs[s].resp.written
        /\ EmailIs(pgUsers, reqs[s].body.email) # {}
        /\ EmailIs(mgUsers, reqs[s].body.email) = {}

Mirror(rows) == [i \in 1..Len(rows) |-> [rows[i] EXCEPT !.id = ObjectID(rows[i].id.v)]]

\* the context JWTAuth sets for the token the document variant issues to the
\* user for whom the relational variant issued tk
MirrorCtx(tk) ==
    [ClaimsCtx(tk) EXCEPT !.user_id = JSONRoundTrip(Hex(ObjectID(tk.claims.user_id.v)))]

\* C24: the relational and the document variant answer alike.  In a relational
\* deployment, a GetProfile request that carries the token the service
\* returned earlier gets the status the document variant gives the same
\* request on the same records.
C24_VariantsAgree ==
    \A s \in Slots :
        (/\ postgresDB /\ held # NoToken
         /\ reqs[s].op = "GetProfile" /\ reqs[s].pc = "handler"
         /\ reqs[s].auth = Bearer(held)) =>
            LET r == reqs[s]
                twin == [r EXCEPT !.ctx = MirrorCtx(held)]
                here == GetProfileHandler(r, "postgres", pgUsers)
                there == GetProfileHandler(twin, "mongo", Mirror(pgUsers))
            IN here.status = there.status

\* the user id of the context names no stored record of the backend in use
NoSuchUser(ctx) ==
    \A i \in 1..Len(Users) : Users[i].id.v # ctx.user_id.v

\* C25: an UpdateProfile with a verified token whose user id names no stored
\* record is answered 404 on either backend and leaves the stores as they are.
C25_UpdateMissingUser ==
    [][\A s \in Slots :
          LET r == reqs[s]
              q == reqs'[s]
          IN (/\ q # r /\ r.op = "UpdateProfile" /\ r.pc \in {"handler", "second"}
              /\ Backend # "none" /\ ValidUpdate(r.body)
              /\ NoSuchUser(r.ctx)) =>
                 /\ pgUsers' = pgUsers /\ mgUsers' = mgUsers
                 /\ q.pc = "done" => q.resp.status = StatusNotFound
      ]_vars

\* C26: with requests served one after another, the limiter lets at most 100
\* requests of a client address through per window.  A request of an address
\* without an entry passes and opens a window of one minute with the counter
\* at 1; a request not after the reset time passes and adds one to the
\* counter while the counter is below 100, and is answered 429 and aborted
\* with the entry unchanged once the counter is at 100; a request after the
\* reset time passes and opens a new window with the counter at 1.  The
\* entries of the other addresses are left alone.
C26_WindowLimit ==
    [][\A s \in Flights :
         (limiter.flight[s].pc = "write" /\ limiter'.flight[s].pc = "done") =>
            LET f == limiter.flight[s]
                g == limiter'.flight[s]
                cl == limiter.clients[f.ip]
                after == limiter'.clients[f.ip]
                passes == g.next /\ ~g.aborted /\ ~g.resp.written
            IN /\ ~cl.present =>
                     /\ passes
                     /\ after.present /\ after.requests = 1
                     /\ after.resetTime = f.at + WindowSeconds * TicksPerSecond
               /\ (cl.present /\ f.at <= cl.resetTime /\ cl.requests < Limit) =>
                     /\ passes
                     /\ after.requests = cl.requests + 1
                     /\ after.resetTime = cl.resetTime
               /\ (cl.present /\ f.at <= cl.resetTime /\ cl.requests >= Limit) =>
                     /\ ~g.next /\ g.aborted
                     /\ g.resp.written /\ g.resp.status = StatusTooManyRequests
                     /\ after = cl
               /\ (cl.present /\ f.at > cl.resetTime) =>
                     /\ passes
                     /\ after.requests = 1
                     /\ after.resetTime = f.at + WindowSeconds * TicksPerSecond
               /\ after.passed <= Limit
               /\ \A b \in Addresses \ {f.ip} : limiter'.clients[b] = limiter.clients[b]
    ]_vars

\* a request is answered 429 in a second window of its address, the entry
\* of the other address standing at its own count
C26_Witness ==
    \E s \in Flights :
        LET f == limiter.flight[s]
        IN /\ f.pc = "done" /\ f.resp.status = StatusTooManyRequests
           /\ f.ip = "10.0.0.1"
           /\ f.at > WindowSeconds * TicksPerSecond
           /\ limiter.clients[f.ip].requests = Limit
           /\ limiter.clients["10.0.0.2"].present
           /\ limiter.clients["10.0.0.2"].requests = 2

\* C30: with requests of one address inside the handler at the same time,
\* the limiter still lets at most 100 of them through per window and the
\* counter stands for every request let through (no increment is lost), and
\* the client table is never accessed without synchronisation (the runtime
\* never stops the process for concurrent map writes).
C30_ConcurrentLimit ==
    /\ ~limiter.fatal
    /\ \A a \in Addresses :
          LET cl == limiter.clients[a]
          IN cl.present => /\ cl.passed <= Limit
                           /\ cl.requests = cl.passed

\* C27: a Register request answered with a status other than 201 (400, 409
\* or 500) leaves the stored users as they were before the request,
\* including when the token cannot be generated after the insert.
C27_FailedRegisterStoresNothing ==
    [][\A s \in Slots :
         (Answers(s, "Register") /\ reqs'[s].resp.status # StatusCreated) =>
            /\ reqs'[s].resp.status \in
                  {StatusOK, StatusBadRequest, StatusConflict, StatusInternalServerError}
            /\ UNCHANGED <<pgUsers, mgUsers>>
    ]_vars

\* C28: a request in which nothing panics gets exactly one response even
\* when the timeout fires: the response holds at most one write, the handler
\* never writes after the request was finished with the 408, and the handler
\* goroutine and the timeout branch are never both about to write.
C28_OneResponse ==
    chain.fault = "none" =>
       /\ Len(chain.resp.body) <= 1
       /\ ~chain.late
       /\ ~(chain.main = "resume" /\ chain.branch = "timeout" /\ chain.worker = "running")

\* C29: when two UpdateProfile requests made at the same time with the token
\* of one stored user, one setting only the first name and the other only
\* the last name, have both been answered, the stored user has the new first
\* name and the new last name, on the relational as on the document backend.
C29_DisjointUpdates ==
    \A s, t \in Slots :
        (/\ Answered(s, "UpdateProfile") /\ Answered(t, "UpdateProfile")
         /\ reqs[s].body = UpdateBody("Zed", "", "")
         /\ reqs[t].body = UpdateBody("", "Smith", "")
         /\ reqs[s].auth.token = reqs[t].auth.token
         /\ reqs[s].resp.status # StatusUnauthorized
         /\ reqs[t].resp.status # StatusUnauthorized
         /\ Backend # "none"
         /\ Mine(Users, reqs[s].auth.token) # {}) =>
            \A i \in Mine(Users, reqs[s].auth.token) :
                Users[i].first_name = "Zed" /\ Users[i].last_name = "Smith"

====
